---- MODULE Spec2Model ----
(***************************************************************************)
(* A model of the ATmega328p emulator core: the status register, the       *)
(* memory objects, the fetch-decode-execute step with its instruction      *)
(* handlers, the disassembler's decode tree, and the flashing of a program *)
(* from a word list or an Intel HEX file.                                  *)
(*                                                                         *)
(* Representation notes.                                                   *)
(*  - A zero-initialised Vec (flash, EEPROM, the SRAM regions above the    *)
(*    register file) is held as a function from the indices that hold a    *)
(*    non-zero value to that value; VecGet defaults to 0.  The vector's    *)
(*    length is the *_SIZE constant next to it.                            *)
(*  - A panic ends the run: fault names it and no operation is enabled     *)
(*    afterwards.                                                          *)
(*  - The unchecked +, - on u8/u16 panic when the build has overflow       *)
(*    checks (debug, the profile the tests run in) and wrap otherwise      *)
(*    (release).  overflow_checks is the build's choice, fixed in Init.    *)
(*  - op and steps are history variables: the last operation called and    *)
(*    the number of calls made that a bound counts (step(); the memory     *)
(*    accesses of MemSpec; the flash operations of FlashSpec).             *)
(***************************************************************************)
EXTENDS Integers, Sequences, FiniteSets, TLC

VARIABLES
    pc,                \* Cpu.pc: u16
    sp,                \* Cpu.sp: u16
    cycles,            \* Cpu.cycles: usize
    opcode,            \* Cpu.opcode: u16, latched at fetch
    status,            \* Cpu.status: Sreg
    registers,         \* Cpu.sram.registers: 32 bytes
    io_registers,      \* Cpu.sram.io_registers: 64 bytes
    ext_io_registers,  \* Cpu.sram.ext_io_registers: 160 bytes
    internal_data,     \* Cpu.sram.internal_data: 2048 bytes
    app_flash,         \* Cpu.system.program_memory.app_flash.data
    boot_flash,        \* Cpu.system.program_memory.boot_flash.data
    eeprom,            \* Cpu.system.eeprom_memory.data
    assembly,          \* Cpu.system.disassembler.assembly
    sreg_byte,         \* the byte last passed to set_byte or returned by byte
    returned,          \* the word last returned by a Memory::read call
    overflow_checks,   \* the build panics on integer overflow
    fault,             \* "none", or the panic that ended the run
    op,                \* history: the last operation called
    steps              \* history: number of calls so far that a bound counts

cpu_vars == <<pc, sp, cycles, opcode, status, registers>>
sram_vars == <<io_registers, ext_io_registers, internal_data>>
mem_vars == <<app_flash, boot_flash, eeprom>>
vars == <<pc, sp, cycles, opcode, status, registers, io_registers,
          ext_io_registers, internal_data, app_flash, boot_flash, eeprom,
          assembly, sreg_byte, returned, overflow_checks, fault, op, steps>>

----------------------------------------------------------------------------
(* Bounds of the model *)

MaxSteps == 3       \* step() calls explored per run of Spec
MaxProgLen == 3     \* program words written before the run of Spec
MaxDecodeSteps == 1 \* step() calls explored per opcode in DecodeSpec

----------------------------------------------------------------------------
(* Machine integers *)

Byte == 0..255
Word == 0..65535

RECURSIVE BitAnd(_, _)
BitAnd(a, b) ==
    IF a = 0 \/ b = 0 THEN 0
    ELSE IF a = b THEN a
    ELSE IF a % 16 = 0 /\ b % 16 = 0 THEN 16 * BitAnd(a \div 16, b \div 16)
    ELSE (a % 2) * (b % 2) + 2 * BitAnd(a \div 2, b \div 2)

RECURSIVE BitOr(_, _)
BitOr(a, b) ==
    IF a = 0 THEN b
    ELSE IF b = 0 THEN a
    ELSE IF a = b THEN a
    ELSE (IF a % 2 = 1 \/ b % 2 = 1 THEN 1 ELSE 0)
         + 2 * BitOr(a \div 2, b \div 2)

RECURSIVE BitXor(_, _)
BitXor(a, b) ==
    IF a = 0 THEN b
    ELSE IF b = 0 THEN a
    ELSE (((a % 2) + (b % 2)) % 2) + 2 * BitXor(a \div 2, b \div 2)

Pow2(n) == CASE n = 0 -> 1 [] n = 1 -> 2 [] n = 2 -> 4 [] n = 3 -> 8
             [] n = 4 -> 16 [] n = 5 -> 32 [] n = 6 -> 64 [] n = 7 -> 128
             [] n = 8 -> 256 [] n = 9 -> 512 [] n = 10 -> 1024
             [] n = 11 -> 2048 [] n = 12 -> 4096 [] n = 13 -> 8192
             [] n = 14 -> 16384 [] n = 15 -> 32768 [] n = 16 -> 65536

Shr(a, n) == a \div Pow2(n)
Shl8(a, n) == (a * Pow2(n)) % 256
Shl16(a, n) == (a * Pow2(n)) % 65536
Not8(a) == 255 - a            \* ! on u8
AsU8(a) == a % 256            \* as u8
B2N(b) == IF b THEN 1 ELSE 0  \* bool as u8

----------------------------------------------------------------------------
(* utils.rs *)

to_u16(hi, lo) == BitOr(Shl16(hi, 8), lo)
low_byte(value) == BitAnd(value, 255)
high_byte(value) == BitAnd(Shr(value, 8), 255)
low_nibble(value) == BitAnd(value, 15)
high_nibble(value) == BitAnd(Shr(value, 4), 15)

\* bits_u8(value).i is value & (1 << i): the mask, not 0 or 1
bits_u8(value) == [i \in 0..7 |-> ((value \div Pow2(i)) % 2) * Pow2(i)]

\* bits_u16(value).i is (value & (1 << i)) as u8
bits_u16(value) ==
    [i \in 0..15 |-> AsU8(((value \div Pow2(i)) % 2) * Pow2(i))]

----------------------------------------------------------------------------
(* memory.rs *)

PROGRAM_FLASH_START == 0
PROGRAM_FLASH_END == 16384
APP_FLASH_START == 0
APP_FLASH_END == 14336
BOOT_FLASH_START == 14336
BOOT_FLASH_END == 16384
SRAM_START == 0
SRAM_END == 2304
EEPROM_START == 0
EEPROM_END == 1024

APP_FLASH_SIZE == 30720
BOOT_FLASH_SIZE == 2048
EEPROM_SIZE == 1024

Contains(lo, hi, a) == lo <= a /\ a < hi

EmptyVec == [i \in {} |-> 0]
VecGet(v, i) == IF i \in DOMAIN v THEN v[i] ELSE 0
VecSet(v, i, d) ==
    IF d = 0 THEN [j \in DOMAIN v \ {i} |-> v[j]]
    ELSE [j \in DOMAIN v \cup {i} |-> IF j = i THEN d ELSE v[j]]

\* Each read yields [ok |-> BOOLEAN, val |-> word]; ok = FALSE is the panic.
Fetched(v) == [ok |-> TRUE, val |-> v]
Faulted == [ok |-> FALSE, val |-> 0]

app_flash_read(address) ==
    IF address < APP_FLASH_SIZE THEN Fetched(VecGet(app_flash, address))
    ELSE Faulted

boot_flash_read(address) ==
    IF address >= 14336 /\ address - 14336 < BOOT_FLASH_SIZE
    THEN Fetched(VecGet(boot_flash, address - 14336))
    ELSE Faulted

program_memory_read(address) ==
    IF Contains(APP_FLASH_START, APP_FLASH_END, address)
    THEN app_flash_read(address)
    ELSE IF Contains(BOOT_FLASH_START, BOOT_FLASH_END, address)
    THEN boot_flash_read(address)
    ELSE Faulted

\* ApplicationFlash::write: data[address] assigned, no range check
app_flash_write(address, data) ==
    IF address < APP_FLASH_SIZE
    THEN /\ app_flash' = VecSet(app_flash, address, data)
         /\ UNCHANGED <<boot_flash, fault>>
    ELSE /\ fault' = "index"
         /\ UNCHANGED <<app_flash, boot_flash>>

\* BootFlash::write: data[address - 0x3800] assigned; below 0x3800 the
\* subtraction overflows (a panic, or a wrapped index past the vector's end)
boot_flash_write(address, data) ==
    IF address < \h3800
    THEN /\ fault' = IF overflow_checks THEN "overflow" ELSE "index"
         /\ UNCHANGED <<app_flash, boot_flash>>
    ELSE IF address - \h3800 < BOOT_FLASH_SIZE
    THEN /\ boot_flash' = VecSet(boot_flash, address - \h3800, data)
         /\ UNCHANGED <<app_flash, fault>>
    ELSE /\ fault' = "index"
         /\ UNCHANGED <<app_flash, boot_flash>>

\* program_memory_write with every address below 0x4000 sent to the
\* application flash
program_memory_write_app_only(address, data) ==
    IF Contains(PROGRAM_FLASH_START, PROGRAM_FLASH_END, address)
    THEN app_flash_write(address, data)
    ELSE /\ fault' = "address"
         /\ UNCHANGED <<app_flash, boot_flash>>

\* ProgramMemory::write: the region that contains the address is written
program_memory_write(address, data) ==
    IF Contains(APP_FLASH_START, APP_FLASH_END, address)
    THEN app_flash_write(address, data)
    ELSE IF Contains(BOOT_FLASH_START, BOOT_FLASH_END, address)
    THEN boot_flash_write(address, data)
    ELSE /\ fault' = "address"
         /\ UNCHANGED <<app_flash, boot_flash>>

eeprom_read(address) ==
    IF ~Contains(EEPROM_START, EEPROM_END, address) THEN Faulted
    ELSE Fetched(VecGet(eeprom, address))

\* EepromMemory::write: the range check, then data as u8 stored
eeprom_write(address, data) ==
    IF ~Contains(EEPROM_START, EEPROM_END, address)
    THEN /\ fault' = "address"
         /\ UNCHANGED eeprom
    ELSE /\ eeprom' = VecSet(eeprom, address, AsU8(data))
         /\ UNCHANGED fault

\* sram_read with the register file kept in a buffer of its own
sram_read_detached(address) ==
    CASE 0 <= address /\ address <= 95 ->
            Fetched(VecGet(io_registers, address))
      [] 96 <= address /\ address <= 255 ->
            Fetched(VecGet(ext_io_registers, address - 96))
      [] 256 <= address /\ address <= 2303 ->
            Fetched(VecGet(internal_data, address - 256))
      [] OTHER -> Faulted

\* sram_read with the extended I/O window indexed from the I/O base 0x20
sram_read_io_base(address) ==
    CASE 0 <= address /\ address <= 31 -> Fetched(registers[address])
      [] 32 <= address /\ address <= 95 ->
            Fetched(VecGet(io_registers, address - 32))
      [] 96 <= address /\ address <= 255 ->
            Fetched(VecGet(ext_io_registers, address - 32))
      [] 256 <= address /\ address <= 2303 ->
            Fetched(VecGet(internal_data, address - 256))
      [] OTHER -> Faulted

sram_read(address) ==
    CASE 0 <= address /\ address <= 31 -> Fetched(registers[address])
      [] 32 <= address /\ address <= 95 ->
            Fetched(VecGet(io_registers, address - 32))
      [] 96 <= address /\ address <= 255 ->
            Fetched(VecGet(ext_io_registers, address - 96))
      [] 256 <= address /\ address <= 2303 ->
            Fetched(VecGet(internal_data, address - 256))
      [] OTHER -> Faulted

\* Sram::write: todo!()
sram_write(address, data) == fault' = "todo"

\* address_range() of each memory object, [start, end)
address_range ==
    [app_flash |-> [start |-> APP_FLASH_START, end |-> APP_FLASH_END],
     boot_flash |-> [start |-> BOOT_FLASH_START, end |-> BOOT_FLASH_END],
     program_memory |->
         [start |-> PROGRAM_FLASH_START, end |-> PROGRAM_FLASH_END],
     eeprom |-> [start |-> EEPROM_START, end |-> EEPROM_END],
     sram |-> [start |-> SRAM_START, end |-> SRAM_END]]

----------------------------------------------------------------------------
(* cpu.rs: Sreg *)

FlagNames == {"C", "Z", "N", "V", "S", "H", "T", "I"}
SregValues == [FlagNames -> BOOLEAN]
SregDefault == [f \in FlagNames |-> FALSE]

\* byte with the Z and N bits exchanged
byte_swapped(s) ==
    BitOr(BitOr(BitOr(BitOr(BitOr(BitOr(BitOr(
        B2N(s.C),
        Shl8(B2N(s.N), 1)),
        Shl8(B2N(s.Z), 2)),
        Shl8(B2N(s.V), 3)),
        Shl8(B2N(s.S), 4)),
        Shl8(B2N(s.H), 5)),
        Shl8(B2N(s.T), 6)),
        Shl8(B2N(s.I), 7))

byte(s) ==
    BitOr(BitOr(BitOr(BitOr(BitOr(BitOr(BitOr(
        B2N(s.C),
        Shl8(B2N(s.Z), 1)),
        Shl8(B2N(s.N), 2)),
        Shl8(B2N(s.V), 3)),
        Shl8(B2N(s.S), 4)),
        Shl8(B2N(s.H), 5)),
        Shl8(B2N(s.T), 6)),
        Shl8(B2N(s.I), 7))

set_byte(b) ==
    [C |-> BitAnd(b, 1) # 0,
     Z |-> BitAnd(Shr(b, 1), 1) # 0,
     N |-> BitAnd(Shr(b, 2), 1) # 0,
     V |-> BitAnd(Shr(b, 3), 1) # 0,
     S |-> BitAnd(Shr(b, 4), 1) # 0,
     H |-> BitAnd(Shr(b, 5), 1) # 0,
     T |-> BitAnd(Shr(b, 6), 1) # 0,
     I |-> BitAnd(Shr(b, 7), 1) # 0]

----------------------------------------------------------------------------
(* cpu.rs: instruction handlers.  Each reads the latched word opcode' and   *)
(* sets pc, sp, cycles, status, registers and fault.                        *)

Is1(x) == x = 1

\* panic!: the handler's remaining assignments never happen
Panic(kind) ==
    /\ fault' = kind
    /\ UNCHANGED <<pc, sp, cycles, status, registers>>

\* a handler with an empty body
EmptyHandler == UNCHANGED <<pc, sp, cycles, status, registers, fault>>

\* the build aborts on a u8 / u16 result outside the type
Overflow8(x) == overflow_checks /\ (x < 0 \/ x > 255)
Overflow16(x) == overflow_checks /\ (x < 0 \/ x > 65535)
Wrap8(x) == (x + 256) % 256
Wrap16(x) == (x + 65536) % 65536

\* two_registers with the two + 16 arms exchanged
two_registers_swapped(hb) ==
    LET rd == Shr(BitAnd(opcode', 240), 4)
        rr == BitAnd(opcode', 15)
        h == high_byte(opcode')
    IN  CASE h = hb + 1 -> [rd |-> rd, rr |-> rr + 16]
          [] h = hb + 2 -> [rd |-> rd + 16, rr |-> rr]
          [] h = hb + 3 -> [rd |-> rd + 16, rr |-> rr + 16]
          [] OTHER -> [rd |-> rd, rr |-> rr]

\* rd / rr of the two-register handlers; hb is the class's first high byte
two_registers(hb) ==
    LET rd == Shr(BitAnd(opcode', 240), 4)
        rr == BitAnd(opcode', 15)
        h == high_byte(opcode')
    IN  CASE h = hb + 1 -> [rd |-> rd + 16, rr |-> rr]
          [] h = hb + 2 -> [rd |-> rd, rr |-> rr + 16]
          [] h = hb + 3 -> [rd |-> rd + 16, rr |-> rr + 16]
          [] OTHER -> [rd |-> rd, rr |-> rr]

\* rd of the register-immediate handlers
immediate_rd == Shr(BitAnd(opcode', 240), 4) + 16

\* K of the register-immediate handlers
immediate_k ==
    AsU8(BitOr(Shl16(BitAnd(Shr(opcode', 8), 15), 4), BitAnd(opcode', 15)))

\* rd of the single-register handlers
single_rd ==
    LET rd == Shr(BitAnd(opcode', 240), 4)
    IN  IF high_byte(opcode') = 149 THEN rd + 16 ELSE rd

\* K of adiw / sbiw
word_k ==
    BitOr(BitOr(BitAnd(opcode', 15),
                Shr(BitAnd(opcode', 64), 2)),
          Shr(BitAnd(opcode', 128), 2))

\* word_d without the doubling
word_d_packed == AsU8(BitAnd(BitAnd(Shr(opcode', 4), 15), 3) + 24)

\* d of adiw / sbiw
word_d == AsU8(BitAnd(BitAnd(Shr(opcode', 4), 15), 3) * 2 + 24)

\* a & b | b & !r | !r & a, on bit i
add_carry_bits(a, b, r, i) ==
    BitOr(BitOr(BitAnd(a[i], b[i]), BitAnd(b[i], Not8(r[i]))),
          BitAnd(Not8(r[i]), a[i]))

\* a7 & b7 & !r7 | !a7 & !b7 & r7
add_overflow_bits(a, b, r) ==
    BitOr(BitAnd(BitAnd(a[7], b[7]), Not8(r[7])),
          BitAnd(BitAnd(Not8(a[7]), Not8(b[7])), r[7]))

\* !a & b | b & r | r & !a, on bit i
sub_borrow_bits(a, b, r, i) ==
    BitOr(BitOr(BitAnd(Not8(a[i]), b[i]), BitAnd(b[i], r[i])),
          BitAnd(r[i], Not8(a[i])))

\* a7 & !b7 & !r7 | !a7 & b7 & r7
sub_overflow_bits(a, b, r) ==
    BitOr(BitAnd(BitAnd(a[7], Not8(b[7])), Not8(r[7])),
          BitAnd(BitAnd(Not8(a[7]), b[7]), r[7]))

\* S = (N as u8) ^ (V as u8) == 1
sign_flag(n, v) == Is1(BitXor(B2N(n), B2N(v)))

\* In the handlers, \E x \in {e} names the value of e, as a let binding
\* of the source does.

add ==
    \E d \in {two_registers(12).rd}, r \in {two_registers(12).rr} :
    \E sum \in {registers[d] + registers[r]} :
    \E result \in {Wrap8(sum)} :
    \E r_bits \in {bits_u8(result)}, rd_bits \in {bits_u8(d)},
       rr_bits \in {bits_u8(r)} :
    \E h \in {Is1(add_carry_bits(rd_bits, rr_bits, r_bits, 3))},
       v \in {Is1(add_overflow_bits(rd_bits, rr_bits, r_bits))},
       n \in {Is1(r_bits[7])},
       c \in {Is1(add_carry_bits(rd_bits, rr_bits, r_bits, 7))} :
        IF Overflow8(sum) THEN Panic("overflow")
        ELSE /\ status' = [status EXCEPT !.H = h, !.V = v, !.N = n,
                               !.S = sign_flag(n, v), !.Z = (result = 0),
                               !.C = c]
             /\ registers' = [registers EXCEPT ![d] = result]
             /\ pc' = pc + 1
             /\ cycles' = cycles + 1
             /\ UNCHANGED <<sp, fault>>

adc ==
    \E d \in {two_registers(28).rd}, r \in {two_registers(28).rr} :
    \E sum \in {registers[d] + registers[r] + B2N(status.C)} :
    \E result \in {Wrap8(sum)} :
    \E r_bits \in {bits_u8(result)}, rd_bits \in {bits_u8(d)},
       rr_bits \in {bits_u8(r)} :
    \E h \in {Is1(BitOr(BitAnd(rd_bits[3], rr_bits[3]),
                        BitAnd(BitAnd(BitAnd(rr_bits[3], Not8(r_bits[3])),
                                      r_bits[3]), rd_bits[3])))},
       v \in {Is1(add_overflow_bits(rd_bits, rr_bits, r_bits))},
       n \in {Is1(r_bits[7])},
       c \in {Is1(add_carry_bits(rd_bits, rr_bits, r_bits, 7))} :
        IF Overflow8(sum) THEN Panic("overflow")
        ELSE /\ status' = [status EXCEPT !.H = h, !.V = v, !.N = n,
                               !.S = sign_flag(n, v), !.Z = (result = 0),
                               !.C = c]
             /\ registers' = [registers EXCEPT ![d] = result]
             /\ pc' = pc + 1
             /\ cycles' = cycles + 1
             /\ UNCHANGED <<sp, fault>>

adiw ==
    \E k \in {word_k}, d \in {word_d} :
    \E rd_low \in {registers[d]}, rd_high \in {registers[d + 1]} :
    \E rd \in {BitOr(Shl16(rd_high, 8), rd_low)} :
    \E sum \in {rd + k} :
    \E result \in {Wrap16(sum)} :
    \E result_low \in {AsU8(BitAnd(result, 255))},
       result_high \in {AsU8(BitAnd(Shr(result, 8), 255))} :
    \E r_bits \in {bits_u16(result)}, rdh_bits \in {bits_u8(result_high)} :
    \E v \in {Is1(BitAnd(Not8(rdh_bits[7]), r_bits[15]))},
       n \in {Is1(r_bits[15])},
       c \in {Is1(BitAnd(Not8(r_bits[15]), rdh_bits[7]))} :
        IF Overflow16(sum) THEN Panic("overflow")
        ELSE /\ status' = [status EXCEPT !.V = v, !.N = n,
                               !.S = sign_flag(n, v), !.Z = (result = 0),
                               !.C = c]
             /\ registers' = [registers EXCEPT ![d] = result_low,
                                               ![d + 1] = result_high]
             /\ pc' = pc + 1
             /\ cycles' = cycles + 2
             /\ UNCHANGED <<sp, fault>>

sub ==
    \E d \in {two_registers(24).rd}, r \in {two_registers(24).rr} :
    \E result \in {Wrap8(registers[d] - registers[r])} :  \* wrapping_sub
    \E r_bits \in {bits_u8(result)}, rd_bits \in {bits_u8(d)},
       rr_bits \in {bits_u8(r)} :
    \E h \in {Is1(sub_borrow_bits(rd_bits, rr_bits, r_bits, 3))},
       v \in {Is1(sub_overflow_bits(rd_bits, rr_bits, r_bits))},
       n \in {Is1(r_bits[7])},
       c \in {Is1(sub_borrow_bits(rd_bits, rr_bits, r_bits, 7))} :
        /\ status' = [status EXCEPT !.H = h, !.V = v, !.N = n,
                          !.S = sign_flag(n, v), !.Z = (result = 0),
                          !.C = c]
        /\ registers' = [registers EXCEPT ![d] = result]
        /\ pc' = pc + 1
        /\ cycles' = cycles + 1
        /\ UNCHANGED <<sp, fault>>

subi ==
    \E d \in {immediate_rd}, k \in {immediate_k} :
    \E diff \in {registers[d] - k} :
    \E result \in {Wrap8(diff)} :
    \E r_bits \in {bits_u8(result)}, rd_bits \in {bits_u8(d)},
       k_bits \in {bits_u8(k)} :
    \E h \in {Is1(sub_borrow_bits(rd_bits, k_bits, r_bits, 3))},
       v \in {Is1(sub_overflow_bits(rd_bits, k_bits, r_bits))},
       n \in {Is1(r_bits[7])},
       c \in {Is1(sub_borrow_bits(rd_bits, k_bits, r_bits, 7))} :
        IF Overflow8(diff) THEN Panic("overflow")
        ELSE /\ status' = [status EXCEPT !.H = h, !.V = v, !.N = n,
                               !.S = sign_flag(n, v), !.Z = (result = 0),
                               !.C = c]
             /\ registers' = [registers EXCEPT ![d] = result]
             /\ pc' = pc + 1
             /\ cycles' = cycles + 1
             /\ UNCHANGED <<sp, fault>>

sbc ==
    \E d \in {two_registers(8).rd}, r \in {two_registers(8).rr} :
    \E diff \in {registers[d] - registers[r] - B2N(status.C)} :
    \E result \in {Wrap8(diff)} :
    \E r_bits \in {bits_u8(result)}, rd_bits \in {bits_u8(d)},
       rr_bits \in {bits_u8(r)} :
    \E h \in {Is1(sub_borrow_bits(rd_bits, rr_bits, r_bits, 3))},
       v \in {Is1(sub_overflow_bits(rd_bits, rr_bits, r_bits))},
       n \in {Is1(r_bits[7])},
       c \in {Is1(sub_borrow_bits(rd_bits, rr_bits, r_bits, 7))} :
        IF Overflow8(diff) THEN Panic("overflow")
        ELSE /\ status' = [status EXCEPT !.H = h, !.V = v, !.N = n,
                               !.S = sign_flag(n, v), !.Z = (result = 0),
                               !.C = c]
             /\ registers' = [registers EXCEPT ![d] = result]
             /\ pc' = pc + 1
             /\ cycles' = cycles + 1
             /\ UNCHANGED <<sp, fault>>

sbci ==
    \E d \in {immediate_rd}, k \in {immediate_k} :
    \E diff \in {registers[d] - k - B2N(status.C)} :
    \E result \in {Wrap8(diff)} :
    \E r_bits \in {bits_u8(result)}, rd_bits \in {bits_u8(d)},
       k_bits \in {bits_u8(k)} :
    \E h \in {Is1(sub_borrow_bits(rd_bits, k_bits, r_bits, 3))},
       v \in {Is1(sub_overflow_bits(rd_bits, k_bits, r_bits))},
       n \in {Is1(r_bits[7])},
       c \in {Is1(sub_borrow_bits(rd_bits, k_bits, r_bits, 7))} :
        IF Overflow8(diff) THEN Panic("overflow")
        ELSE /\ status' = [status EXCEPT !.H = h, !.V = v, !.N = n,
                               !.S = sign_flag(n, v), !.Z = (result = 0),
                               !.C = c]
             /\ registers' = [registers EXCEPT ![d] = result]
             /\ pc' = pc + 1
             /\ cycles' = cycles + 1
             /\ UNCHANGED <<sp, fault>>

sbiw ==
    \E k \in {word_k}, d \in {word_d} :
    \E rd_low \in {registers[d]}, rd_high \in {registers[d + 1]} :
    \E rd \in {BitOr(Shl16(rd_high, 8), rd_low)} :
    \E diff \in {rd - k} :
    \E result \in {Wrap16(diff)} :
    \E result_low \in {AsU8(BitAnd(result, 255))},
       result_high \in {AsU8(BitAnd(Shr(result, 8), 255))} :
    \E r_bits \in {bits_u16(result)}, rdh_bits \in {bits_u8(result_high)} :
    \E v \in {Is1(BitAnd(r_bits[15], Not8(rdh_bits[7])))},
       n \in {Is1(r_bits[15])},
       c \in {Is1(BitAnd(r_bits[15], Not8(rdh_bits[7])))} :
        IF Overflow16(diff) THEN Panic("overflow")
        ELSE /\ status' = [status EXCEPT !.V = v, !.N = n,
                               !.S = sign_flag(n, v), !.Z = (result = 0),
                               !.C = c]
             /\ registers' = [registers EXCEPT ![d] = result_low,
                                               ![d + 1] = result_high]
             /\ pc' = pc + 1
             /\ cycles' = cycles + 2
             /\ UNCHANGED <<sp, fault>>

\* the flag and register update shared by and, andi, or, ori, eor
logic_result(d, result) ==
    \E r_bits \in {bits_u8(result)} :
    \E n \in {Is1(r_bits[7])} :
        /\ status' = [status EXCEPT !.V = FALSE, !.N = n,
                          !.S = sign_flag(n, FALSE), !.Z = (result = 0)]
        /\ registers' = [registers EXCEPT ![d] = result]
        /\ pc' = pc + 1
        /\ cycles' = cycles + 1
        /\ UNCHANGED <<sp, fault>>

and ==
    \E d \in {two_registers(32).rd}, r \in {two_registers(32).rr} :
    \E result \in {BitAnd(registers[d], registers[r])} :
        logic_result(d, result)

andi ==
    \E d \in {immediate_rd}, k \in {immediate_k} :
    \E result \in {BitAnd(registers[d], k)} :
        logic_result(d, result)

or ==
    \E d \in {two_registers(40).rd}, r \in {two_registers(40).rr} :
    \E result \in {BitOr(registers[d], registers[r])} :
        logic_result(d, result)

ori ==
    \E d \in {immediate_rd}, k \in {immediate_k} :
    \E result \in {BitOr(registers[d], k)} :
        logic_result(d, result)

eor ==
    \E d \in {two_registers(36).rd}, r \in {two_registers(36).rr} :
    \E result \in {BitXor(registers[d], registers[r])} :
        logic_result(d, result)

\* com that leaves the carry flag alone
com_keeps_carry ==
    \E d \in {single_rd} :
    \E result \in {255 - registers[d]} :
    \E r_bits \in {bits_u8(result)} :
    \E n \in {Is1(r_bits[7])} :
        /\ status' = [status EXCEPT !.V = FALSE, !.N = n,
                          !.S = sign_flag(n, FALSE), !.Z = (result = 0)]
        /\ registers' = [registers EXCEPT ![d] = result]
        /\ pc' = pc + 1
        /\ cycles' = cycles + 1
        /\ UNCHANGED <<sp, fault>>

com ==
    \E d \in {single_rd} :
    \E result \in {255 - registers[d]} :
    \E r_bits \in {bits_u8(result)} :
    \E n \in {Is1(r_bits[7])} :
        /\ status' = [status EXCEPT !.V = FALSE, !.N = n,
                          !.S = sign_flag(n, FALSE), !.Z = (result = 0),
                          !.C = TRUE]
        /\ registers' = [registers EXCEPT ![d] = result]
        /\ pc' = pc + 1
        /\ cycles' = cycles + 1
        /\ UNCHANGED <<sp, fault>>

\* r7 & !r6 & !r5 & !r4 & !r3 & !r2 & !r1 & !r0
only_bit7(r) ==
    BitAnd(BitAnd(BitAnd(BitAnd(BitAnd(BitAnd(BitAnd(
        r[7], Not8(r[6])), Not8(r[5])), Not8(r[4])), Not8(r[3])),
        Not8(r[2])), Not8(r[1])), Not8(r[0]))

\* !r7 & !r6 & !r5 & !r4 & !r3 & !r2 & !r1 & !r0
no_bit(r) ==
    BitAnd(BitAnd(BitAnd(BitAnd(BitAnd(BitAnd(BitAnd(
        Not8(r[7]), Not8(r[6])), Not8(r[5])), Not8(r[4])), Not8(r[3])),
        Not8(r[2])), Not8(r[1])), Not8(r[0]))

\* !r7 & r6 & r5 & r4 & r3 & r2 & r1 & r0
all_but_bit7(r) ==
    BitAnd(BitAnd(BitAnd(BitAnd(BitAnd(BitAnd(BitAnd(
        Not8(r[7]), r[6]), r[5]), r[4]), r[3]), r[2]), r[1]), r[0])

\* r7 | r6 | r5 | r4 | r3 | r2 | r1 | r0
any_bit(r) ==
    BitOr(BitOr(BitOr(BitOr(BitOr(BitOr(BitOr(
        r[7], r[6]), r[5]), r[4]), r[3]), r[2]), r[1]), r[0])

neg ==
    \E d \in {single_rd} :
    \E result \in {Wrap8(0 - registers[d])} :  \* wrapping_sub
    \E r_bits \in {bits_u8(result)}, rd_bits \in {bits_u8(d)} :
    \E h \in {Is1(BitOr(r_bits[3], Not8(rd_bits[3])))},
       v \in {Is1(only_bit7(r_bits))},
       n \in {Is1(r_bits[7])},
       c \in {Is1(any_bit(r_bits))} :
        /\ status' = [status EXCEPT !.H = h, !.V = v, !.N = n,
                          !.S = sign_flag(n, v), !.Z = (result = 0),
                          !.C = c]
        /\ registers' = [registers EXCEPT ![d] = result]
        /\ pc' = pc + 1
        /\ cycles' = cycles + 1
        /\ UNCHANGED <<sp, fault>>

inc ==
    \E d \in {single_rd} :
    \E sum \in {registers[d] + 1} :
    \E result \in {Wrap8(sum)} :
    \E r_bits \in {bits_u8(result)} :
    \E v \in {Is1(only_bit7(r_bits))}, n \in {Is1(r_bits[7])} :
        IF Overflow8(sum) THEN Panic("overflow")
        ELSE /\ status' = [status EXCEPT !.V = v, !.N = n,
                               !.S = sign_flag(n, v),
                               !.Z = Is1(no_bit(r_bits))]
             /\ registers' = [registers EXCEPT ![d] = result]
             /\ pc' = pc + 1
             /\ cycles' = cycles + 1
             /\ UNCHANGED <<sp, fault>>

dec ==
    \E d \in {single_rd} :
    \E result \in {Wrap8(registers[d] - 1)} :  \* wrapping_sub
    \E r_bits \in {bits_u8(result)} :
    \E v \in {Is1(all_but_bit7(r_bits))}, n \in {Is1(r_bits[7])} :
        /\ status' = [status EXCEPT !.V = v, !.N = n,
                          !.S = sign_flag(n, v),
                          !.Z = Is1(no_bit(r_bits))]
        /\ registers' = [registers EXCEPT ![d] = result]
        /\ pc' = pc + 1
        /\ cycles' = cycles + 1
        /\ UNCHANGED <<sp, fault>>

des ==
    /\ pc' = pc + 1
    /\ cycles' = cycles + 1
    /\ UNCHANGED <<sp, status, registers, fault>>

\* mul_result with the two result bytes exchanged
mul_result_swapped(result) ==
    \E result_low \in {AsU8(BitAnd(result, 255))},
       result_high \in {AsU8(BitAnd(Shr(result, 8), 255))},
       r_bits \in {bits_u16(result)} :
        /\ status' = [status EXCEPT !.C = Is1(r_bits[15]),
                                    !.Z = (result = 1)]
        /\ registers' = [registers EXCEPT ![0] = result_high,
                                          ![1] = result_low]
        /\ pc' = pc + 1
        /\ cycles' = cycles + 1
        /\ UNCHANGED <<sp, fault>>

\* mul_result with the product stored one register up, in R2:R1
mul_result_one_up(result) ==
    \E result_low \in {AsU8(BitAnd(result, 255))},
       result_high \in {AsU8(BitAnd(Shr(result, 8), 255))},
       r_bits \in {bits_u16(result)} :
        /\ status' = [status EXCEPT !.C = Is1(r_bits[15]),
                                    !.Z = (result = 1)]
        /\ registers' = [registers EXCEPT ![1] = result_low,
                                          ![2] = result_high]
        /\ pc' = pc + 1
        /\ cycles' = cycles + 1
        /\ UNCHANGED <<sp, fault>>

\* the flag and register update shared by mul, muls, mulsu
mul_result(result) ==
    \E result_low \in {AsU8(BitAnd(result, 255))},
       result_high \in {AsU8(BitAnd(Shr(result, 8), 255))},
       r_bits \in {bits_u16(result)} :
        /\ status' = [status EXCEPT !.C = Is1(r_bits[15]),
                                    !.Z = (result = 1)]
        /\ registers' = [registers EXCEPT ![0] = result_low,
                                          ![1] = result_high]
        /\ pc' = pc + 1
        /\ cycles' = cycles + 1
        /\ UNCHANGED <<sp, fault>>

mul ==
    \E d \in {two_registers(156).rd}, r \in {two_registers(156).rr} :
    \E result \in {registers[d] * registers[r]} :
        mul_result(result)

muls ==
    \E d \in {Shr(BitAnd(opcode', 240), 4) + 16},
       r \in {BitAnd(opcode', 15) + 16} :
    \E result \in {Wrap8(0 - registers[d]) * Wrap8(0 - registers[r])} :
        mul_result(result)

mulsu ==
    \E d \in {Shr(BitAnd(opcode', 112), 4) + 16},
       r \in {BitAnd(opcode', 7) + 16} :
    \E result \in {(Wrap16(0 - registers[d]) * registers[r]) % 65536} :
        mul_result(result)

\* fmul .. break_: the handlers whose body is empty
EmptyHandlers ==
    {"fmul", "fmuls", "fmulsu", "rjmp", "ijmp", "jmp", "rcall", "icall",
     "call", "ret", "reti", "cpse", "cp", "cpc", "cpi", "sbrc", "sbrs",
     "sbic", "sbis", "breq", "brne", "brcs", "brcc", "brmi", "brpl",
     "brge", "brlt", "brhs", "brhc", "brts", "brtc", "brvs", "brvc",
     "brie", "brid", "sbi", "cbi", "lsr", "ror", "asr", "swap", "bst",
     "bld", "mov", "movw", "ldi", "ld_x", "ld_y", "ld_z", "ldd", "lds",
     "st_x", "st_y", "st_z", "std", "sts", "lpm", "spm", "in_", "out",
     "push", "pop", "break_"}

\* sec .. clh: one flag assigned, pc and cycles advanced
flag_handler(f, b) ==
    /\ status' = [status EXCEPT ![f] = b]
    /\ pc' = pc + 1
    /\ cycles' = cycles + 1
    /\ UNCHANGED <<sp, registers, fault>>

\* flag_handlers with the flags of sen/cln and sez/clz exchanged
flag_handlers_swapped ==
    [sec |-> [flag |-> "C", value |-> TRUE],
     clc |-> [flag |-> "C", value |-> FALSE],
     sen |-> [flag |-> "Z", value |-> TRUE],
     cln |-> [flag |-> "Z", value |-> FALSE],
     sez |-> [flag |-> "N", value |-> TRUE],
     clz |-> [flag |-> "N", value |-> FALSE],
     sei |-> [flag |-> "I", value |-> TRUE],
     cli |-> [flag |-> "I", value |-> FALSE],
     ses |-> [flag |-> "S", value |-> TRUE],
     cls |-> [flag |-> "S", value |-> FALSE],
     sev |-> [flag |-> "V", value |-> TRUE],
     clv |-> [flag |-> "V", value |-> FALSE],
     set |-> [flag |-> "T", value |-> TRUE],
     clt |-> [flag |-> "T", value |-> FALSE],
     seh |-> [flag |-> "H", value |-> TRUE],
     clh |-> [flag |-> "H", value |-> FALSE]]

\* the flag each of sec .. clh assigns, and the value
flag_handlers ==
    [sec |-> [flag |-> "C", value |-> TRUE],
     clc |-> [flag |-> "C", value |-> FALSE],
     sen |-> [flag |-> "N", value |-> TRUE],
     cln |-> [flag |-> "N", value |-> FALSE],
     sez |-> [flag |-> "Z", value |-> TRUE],
     clz |-> [flag |-> "Z", value |-> FALSE],
     sei |-> [flag |-> "I", value |-> TRUE],
     cli |-> [flag |-> "I", value |-> FALSE],
     ses |-> [flag |-> "S", value |-> TRUE],
     cls |-> [flag |-> "S", value |-> FALSE],
     sev |-> [flag |-> "V", value |-> TRUE],
     clv |-> [flag |-> "V", value |-> FALSE],
     set |-> [flag |-> "T", value |-> TRUE],
     clt |-> [flag |-> "T", value |-> FALSE],
     seh |-> [flag |-> "H", value |-> TRUE],
     clh |-> [flag |-> "H", value |-> FALSE]]

nop ==
    /\ cycles' = cycles + 1
    /\ pc' = pc + 1
    /\ UNCHANGED <<sp, status, registers, fault>>

sleep ==
    /\ cycles' = cycles + 1
    /\ pc' = pc + 1
    /\ UNCHANGED <<sp, status, registers, fault>>

wdr ==
    /\ cycles' = cycles + 1
    /\ pc' = pc + 1
    /\ UNCHANGED <<sp, status, registers, fault>>

\* reserved with an empty body, like the handlers not yet written
reserved_empty == EmptyHandler

reserved ==
    /\ cycles' = cycles + 1
    /\ pc' = pc + 1
    /\ UNCHANGED <<sp, status, registers, fault>>

\* the handlers step can call
HandlerNames ==
    {"add", "adc", "adiw", "sub", "subi", "sbc", "sbci", "sbiw", "and",
     "andi", "or", "ori", "eor", "com", "neg", "inc", "dec", "des",
     "mul", "muls", "mulsu", "nop", "sleep", "wdr", "reserved", "sec",
     "clc", "sen", "cln", "sez", "clz", "sei", "cli", "ses", "cls",
     "sev", "clv", "set", "clt", "seh", "clh", "fmul", "fmuls",
     "fmulsu", "rjmp", "ijmp", "jmp", "rcall", "icall", "call", "ret",
     "reti", "cpse", "cp", "cpc", "cpi", "sbrc", "sbrs", "sbic", "sbis",
     "breq", "brne", "brcs", "brcc", "brmi", "brpl", "brge", "brlt",
     "brhs", "brhc", "brts", "brtc", "brvs", "brvc", "brie", "brid",
     "sbi", "cbi", "lsr", "ror", "asr", "swap", "bst", "bld", "mov",
     "movw", "ldi", "ld_x", "ld_y", "ld_z", "ldd", "lds", "st_x",
     "st_y", "st_z", "std", "sts", "lpm", "spm", "in_", "out", "push",
     "pop", "break_"}

\* the call made by the match arm that names handler h
Call(h) ==
    CASE h = "add" -> add
      [] h = "adc" -> adc
      [] h = "adiw" -> adiw
      [] h = "sub" -> sub
      [] h = "subi" -> subi
      [] h = "sbc" -> sbc
      [] h = "sbci" -> sbci
      [] h = "sbiw" -> sbiw
      [] h = "and" -> and
      [] h = "andi" -> andi
      [] h = "or" -> or
      [] h = "ori" -> ori
      [] h = "eor" -> eor
      [] h = "com" -> com
      [] h = "neg" -> neg
      [] h = "inc" -> inc
      [] h = "dec" -> dec
      [] h = "des" -> des
      [] h = "mul" -> mul
      [] h = "muls" -> muls
      [] h = "mulsu" -> mulsu
      [] h = "nop" -> nop
      [] h = "sleep" -> sleep
      [] h = "wdr" -> wdr
      [] h = "reserved" -> reserved
      [] h \in EmptyHandlers -> EmptyHandler
      [] h \in DOMAIN flag_handlers ->
            flag_handler(flag_handlers[h].flag, flag_handlers[h].value)
      [] h = "unreachable" -> Panic("unreachable")

----------------------------------------------------------------------------
(* cpu.rs: the decode tree of step *)

InRange(w, lo, hi) == lo <= w /\ w <= hi

\* flag_arm with the arms of 0x0..=0xE only
flag_arm_short(high) ==
    CASE high = \h0 -> "sec" [] high = \h1 -> "sez" [] high = \h2 -> "sen"
      [] high = \h3 -> "sev" [] high = \h4 -> "ses" [] high = \h5 -> "seh"
      [] high = \h6 -> "set" [] high = \h7 -> "sei" [] high = \h8 -> "clc"
      [] high = \h9 -> "clz" [] high = \hA -> "cln" [] high = \hB -> "clv"
      [] high = \hC -> "cls" [] high = \hD -> "clh" [] high = \hE -> "clt"
      [] OTHER -> "unreachable"

\* the flag handler of 0x94x8, by the nibble in bits 7..4
flag_arm(high) ==
    CASE high = \h0 -> "sec" [] high = \h1 -> "sez" [] high = \h2 -> "sen"
      [] high = \h3 -> "sev" [] high = \h4 -> "ses" [] high = \h5 -> "seh"
      [] high = \h6 -> "set" [] high = \h7 -> "sei" [] high = \h8 -> "clc"
      [] high = \h9 -> "clz" [] high = \hA -> "cln" [] high = \hB -> "clv"
      [] high = \hC -> "cls" [] high = \hD -> "clh" [] high = \hE -> "clt"
      [] high = \hF -> "cli" [] OTHER -> "unreachable"

\* the handler of 0x95x8, by the nibble in bits 7..4
control_arm(high) ==
    CASE high = \h0 -> "ret"
      [] high = \h1 -> "reti"
      [] high = \h8 -> "sleep"
      [] high = \h9 -> "break_"
      [] high = \hA -> "wdr"
      [] high = \hC -> "lpm"
      [] InRange(high, \hE, \hF) -> "spm"
      [] OTHER -> "reserved"

\* the branch-if-set handler, by the nibble in bits 3..0
branch_set_arm(low) ==
    CASE low = \h0 -> "brcs" [] low = \h1 -> "breq" [] low = \h2 -> "brmi"
      [] low = \h3 -> "brvs" [] low = \h4 -> "brlt" [] low = \h5 -> "brhs"
      [] low = \h6 -> "brts" [] low = \h7 -> "brie" [] low = \h8 -> "brcs"
      [] low = \h9 -> "breq" [] low = \hA -> "brmi" [] low = \hB -> "brvs"
      [] low = \hC -> "brlt" [] low = \hD -> "brhs" [] low = \hE -> "brts"
      [] low = \hF -> "brie" [] OTHER -> "unreachable"

\* the branch-if-clear handler, by the nibble in bits 3..0
branch_clear_arm(low) ==
    CASE low = \h0 -> "brcc" [] low = \h1 -> "brne" [] low = \h2 -> "brpl"
      [] low = \h3 -> "brvc" [] low = \h4 -> "brge" [] low = \h5 -> "brhc"
      [] low = \h6 -> "brtc" [] low = \h7 -> "brid" [] low = \h8 -> "brcc"
      [] low = \h9 -> "brne" [] low = \hA -> "brpl" [] low = \hB -> "brvc"
      [] low = \hC -> "brge" [] low = \hD -> "brhc" [] low = \hE -> "brtc"
      [] low = \hF -> "brid" [] OTHER -> "unreachable"

\* The handler the match of step calls for opcode word w; "unreachable" is
\* an unreachable!() arm.
Handler(w) ==
    LET low == AsU8(BitAnd(w, \hF))
        high == AsU8(BitAnd(Shr(w, 4), \hF))
    IN
    CASE InRange(w, \h0000, \h00FF) ->
            (IF AsU8(BitAnd(w, \hFF)) = \h00 THEN "nop" ELSE "reserved")
      [] InRange(w, \h0100, \h01FF) -> "movw"
      [] InRange(w, \h0200, \h02FF) -> "muls"
      [] InRange(w, \h0300, \h03FF) ->
            (CASE InRange(low, \h0, \h7) ->
                     (CASE InRange(high, \h0, \h7) -> "mulsu"
                        [] InRange(high, \h8, \hF) -> "fmuls"
                        [] OTHER -> "unreachable")
               [] InRange(low, \h8, \hF) ->
                     (CASE InRange(high, \h0, \h7) -> "fmul"
                        [] InRange(high, \h8, \hF) -> "fmulsu"
                        [] OTHER -> "unreachable")
               [] OTHER -> "unreachable")
      [] InRange(w, \h0400, \h07FF) -> "cpc"
      [] InRange(w, \h0800, \h0BFF) -> "sbc"
      [] InRange(w, \h0C00, \h0FFF) -> "add"
      [] InRange(w, \h1000, \h13FF) -> "cpse"
      [] InRange(w, \h1400, \h17FF) -> "cp"
      [] InRange(w, \h1800, \h1BFF) -> "sub"
      [] InRange(w, \h1C00, \h1FFF) -> "adc"
      [] InRange(w, \h2000, \h23FF) -> "and"
      [] InRange(w, \h2400, \h27FF) -> "eor"
      [] InRange(w, \h2800, \h2BFF) -> "or"
      [] InRange(w, \h2C00, \h2FFF) -> "mov"
      [] InRange(w, \h3000, \h3FFF) -> "cpi"
      [] InRange(w, \h4000, \h4FFF) -> "sbci"
      [] InRange(w, \h5000, \h5FFF) -> "subi"
      [] InRange(w, \h6000, \h6FFF) -> "ori"
      [] InRange(w, \h7000, \h7FFF) -> "andi"
      [] InRange(w, \h8000, \h81FF) -> "ldd"
      [] InRange(w, \h8200, \h83FF) -> "std"
      [] InRange(w, \h8400, \h85FF) -> "ldd"
      [] InRange(w, \h8600, \h87FF) -> "std"
      [] InRange(w, \h8800, \h89FF) -> "ldd"
      [] InRange(w, \h8A00, \h8BFF) -> "std"
      [] InRange(w, \h8C00, \h8DFF) -> "ldd"
      [] InRange(w, \h8E00, \h8FFF) -> "std"
      [] InRange(w, \h9000, \h91FF) ->
            (CASE low = \h0 -> "lds"
               [] InRange(low, \h1, \h2) -> "ld_z"
               [] low = \h3 -> "reserved"
               [] InRange(low, \h4, \h5) -> "lpm"
               [] InRange(low, \h6, \h8) -> "reserved"
               [] InRange(low, \h9, \hA) -> "ld_y"
               [] low = \hB -> "reserved"
               [] InRange(low, \hC, \hE) -> "ld_x"
               [] low = \hF -> "pop"
               [] OTHER -> "unreachable")
      [] InRange(w, \h9200, \h93FF) ->
            (CASE low = \h0 -> "sts"
               [] InRange(low, \h1, \h2) -> "st_z"
               [] InRange(low, \h3, \h8) -> "reserved"
               [] InRange(low, \h9, \hA) -> "st_y"
               [] low = \hB -> "reserved"
               [] InRange(low, \hC, \hE) -> "st_x"
               [] low = \hF -> "push"
               [] OTHER -> "unreachable")
      [] InRange(w, \h9400, \h94FF) ->
            (CASE low = \h0 -> "com"
               [] low = \h1 -> "neg"
               [] low = \h2 -> "swap"
               [] low = \h3 -> "inc"
               [] low = \h4 -> "reserved"
               [] low = \h5 -> "asr"
               [] low = \h6 -> "lsr"
               [] low = \h7 -> "ror"
               [] low = \h8 -> flag_arm(high)
               [] low = \h9 -> (IF high = \h0 THEN "ijmp" ELSE "reserved")
               [] low = \hA -> "dec"
               [] low = \hB -> "des"
               [] InRange(low, \hC, \hD) -> "jmp"
               [] InRange(low, \hE, \hF) -> "call"
               [] OTHER -> "unreachable")
      [] InRange(w, \h9500, \h95FF) ->
            (CASE low = \h0 -> "com"
               [] low = \h1 -> "neg"
               [] low = \h2 -> "swap"
               [] low = \h3 -> "inc"
               [] low = \h4 -> "reserved"
               [] low = \h5 -> "asr"
               [] low = \h6 -> "lsr"
               [] low = \h7 -> "ror"
               [] low = \h8 -> control_arm(high)
               [] low = \h9 -> (IF high = \h0 THEN "icall" ELSE "reserved")
               [] low = \hA -> "dec"
               [] low = \hB -> "reserved"
               [] InRange(low, \hC, \hD) -> "jmp"
               [] InRange(low, \hE, \hF) -> "call"
               [] OTHER -> "unreachable")
      [] InRange(w, \h9600, \h96FF) -> "adiw"
      [] InRange(w, \h9700, \h97FF) -> "sbiw"
      [] InRange(w, \h9800, \h98FF) -> "cbi"
      [] InRange(w, \h9900, \h99FF) -> "sbic"
      [] InRange(w, \h9A00, \h9AFF) -> "sbi"
      [] InRange(w, \h9B00, \h9BFF) -> "sbis"
      [] InRange(w, \h9C00, \h9FFF) -> "mul"
      [] InRange(w, \hA000, \hA1FF) -> "ldd"
      [] InRange(w, \hA200, \hA3FF) -> "std"
      [] InRange(w, \hA400, \hA5FF) -> "ldd"
      [] InRange(w, \hA600, \hA7FF) -> "std"
      [] InRange(w, \hA800, \hA9FF) -> "ldd"
      [] InRange(w, \hAA00, \hABFF) -> "std"
      [] InRange(w, \hAC00, \hADFF) -> "ldd"
      [] InRange(w, \hAE00, \hAFFF) -> "std"
      [] InRange(w, \hB000, \hB7FF) -> "in_"
      [] InRange(w, \hB800, \hBFFF) -> "out"
      [] InRange(w, \hC000, \hCFFF) -> "rjmp"
      [] InRange(w, \hD000, \hDFFF) -> "rcall"
      [] InRange(w, \hE000, \hEFFF) -> "ldi"
      [] InRange(w, \hF000, \hF3FF) -> branch_set_arm(low)
      [] InRange(w, \hF400, \hF7FF) -> branch_clear_arm(low)
      [] InRange(w, \hF800, \hF9FF) -> "bld"
      [] InRange(w, \hFA00, \hFBFF) -> "bst"
      [] InRange(w, \hFC00, \hFDFF) -> "sbrc"
      [] InRange(w, \hFE00, \hFFFF) -> "sbrs"

----------------------------------------------------------------------------
(* cpu.rs: Cpu::step, Cpu::reset *)

\* fetch, decode, execute
step ==
    \E fetched \in {program_memory_read(pc)} :
        IF ~fetched.ok
        THEN /\ fault' = "address"
             /\ UNCHANGED <<pc, sp, cycles, opcode, status, registers>>
        ELSE /\ opcode' = fetched.val
             /\ \E h \in {Handler(fetched.val)} : Call(h)

\* reset that forgets the cycle counter
reset_keeps_cycles ==
    /\ sp' = 0
    /\ pc' = 0
    /\ UNCHANGED <<cycles, opcode, status, registers, fault>>

reset ==
    /\ sp' = 0
    /\ pc' = 0
    /\ cycles' = 0
    /\ UNCHANGED <<opcode, status, registers, fault>>

----------------------------------------------------------------------------
(* disassembler.rs *)

R == "[R]"

\* the mnemonic of 0x94x8, by the nibble in bits 7..4
flag_mnemonic(high) ==
    CASE high = \h0 -> "sec" [] high = \h1 -> "sez" [] high = \h2 -> "sen"
      [] high = \h3 -> "sev" [] high = \h4 -> "ses" [] high = \h5 -> "seh"
      [] high = \h6 -> "set" [] high = \h7 -> "sei" [] high = \h8 -> "clc"
      [] high = \h9 -> "clz" [] high = \hA -> "cln" [] high = \hB -> "clv"
      [] high = \hC -> "cls" [] high = \hD -> "clh" [] high = \hE -> "clt"
      [] high = \hF -> "cli" [] OTHER -> "unreachable"

\* control_mnemonic without its break arm
control_mnemonic_no_break(high) ==
    CASE high = \h0 -> "ret"
      [] high = \h1 -> "reti"
      [] high = \h8 -> "sleep"
      [] high = \hA -> "wdr"
      [] high = \hC -> "lpm"
      [] InRange(high, \hE, \hF) -> "spm"
      [] OTHER -> R

\* the mnemonic of 0x95x8, by the nibble in bits 7..4
control_mnemonic(high) ==
    CASE high = \h0 -> "ret"
      [] high = \h1 -> "reti"
      [] high = \h8 -> "sleep"
      [] high = \h9 -> "break"
      [] high = \hA -> "wdr"
      [] high = \hC -> "lpm"
      [] InRange(high, \hE, \hF) -> "spm"
      [] OTHER -> R

\* the mnemonic of 0xF000-0xF3FF, by the nibble in bits 3..0
branch_set_mnemonic(low) ==
    CASE low = \h0 -> "brcs" [] low = \h1 -> "breq" [] low = \h2 -> "brmi"
      [] low = \h3 -> "brvs" [] low = \h4 -> "brlt" [] low = \h5 -> "brhs"
      [] low = \h6 -> "brts" [] low = \h7 -> "brie" [] low = \h8 -> "brcs"
      [] low = \h9 -> "breq" [] low = \hA -> "brmi" [] low = \hB -> "brvs"
      [] low = \hC -> "brlt" [] low = \hD -> "brhs" [] low = \hE -> "brts"
      [] low = \hF -> "brie" [] OTHER -> "unreachable"

\* the mnemonic of 0xF400-0xF7FF, by the nibble in bits 3..0
branch_clear_mnemonic(low) ==
    CASE low = \h0 -> "brcc" [] low = \h1 -> "brne" [] low = \h2 -> "brpl"
      [] low = \h3 -> "brvc" [] low = \h4 -> "brge" [] low = \h5 -> "brhc"
      [] low = \h6 -> "brtc" [] low = \h7 -> "brid" [] low = \h8 -> "brcc"
      [] low = \h9 -> "brne" [] low = \hA -> "brpl" [] low = \hB -> "brvc"
      [] low = \hC -> "brge" [] low = \hD -> "brhc" [] low = \hE -> "brtc"
      [] low = \hF -> "brid" [] OTHER -> "unreachable"

\* The string the match of disassemble leaves in `instruction` for opcode
\* word w (successive push_str calls concatenate).
Mnemonic(w) ==
    LET low == AsU8(BitAnd(w, \hF))
        high == AsU8(BitAnd(Shr(w, 4), \hF))
    IN
    CASE InRange(w, \h0000, \h00FF) ->
            (IF AsU8(BitAnd(w, \hFF)) = \h00 THEN "nop" ELSE R)
      [] InRange(w, \h0100, \h01FF) -> "movw"
      [] InRange(w, \h0200, \h02FF) -> "muls"
      [] InRange(w, \h0300, \h03FF) ->
            (CASE InRange(low, \h0, \h7) ->
                     (CASE InRange(high, \h0, \h7) -> "mulsu"
                        [] InRange(high, \h8, \hF) -> "fmuls"
                        [] OTHER -> "unreachable")
               [] InRange(low, \h8, \hF) ->
                     (CASE InRange(high, \h0, \h7) -> "fmul"
                        [] InRange(high, \h8, \hF) -> "fmulsu"
                        [] OTHER -> "unreachable")
               [] OTHER -> "unreachable")
      [] InRange(w, \h0400, \h07FF) -> "cpc"
      [] InRange(w, \h0800, \h0BFF) -> "sbc"
      [] InRange(w, \h0C00, \h0FFF) -> "add"
      [] InRange(w, \h1000, \h13FF) -> "cpse"
      [] InRange(w, \h1400, \h17FF) -> "cp"
      [] InRange(w, \h1800, \h1BFF) -> "sub"
      [] InRange(w, \h1C00, \h1FFF) -> "adc"
      [] InRange(w, \h2000, \h23FF) -> "and"
      [] InRange(w, \h2400, \h27FF) -> "eor"
      [] InRange(w, \h2800, \h2BFF) -> "or"
      [] InRange(w, \h2C00, \h2FFF) -> "mov"
      [] InRange(w, \h3000, \h3FFF) -> "cpi"
      [] InRange(w, \h4000, \h4FFF) -> "sbci"
      [] InRange(w, \h5000, \h5FFF) -> "subi"
      [] InRange(w, \h6000, \h6FFF) -> "ori"
      [] InRange(w, \h7000, \h7FFF) -> "andi"
      [] InRange(w, \h8000, \h81FF) -> "ld_zld_yldd"
      [] InRange(w, \h8200, \h83FF) -> "std"
      [] InRange(w, \h8400, \h85FF) -> "ldd"
      [] InRange(w, \h8600, \h87FF) -> "std"
      [] InRange(w, \h8800, \h89FF) -> "ldd"
      [] InRange(w, \h8A00, \h8BFF) -> "std"
      [] InRange(w, \h8C00, \h8DFF) -> "ldd"
      [] InRange(w, \h8E00, \h8FFF) -> "std"
      [] InRange(w, \h9000, \h91FF) ->
            (CASE low = \h0 -> "lds"
               [] InRange(low, \h1, \h2) -> "ld_z"
               [] low = \h3 -> R
               [] InRange(low, \h4, \h5) -> "lpm"
               [] InRange(low, \h6, \h8) -> R
               [] InRange(low, \h9, \hA) -> "ld_y"
               [] low = \hB -> R
               [] InRange(low, \hC, \hE) -> "ld_x"
               [] low = \hF -> "pop"
               [] OTHER -> "unreachable")
      [] InRange(w, \h9200, \h93FF) ->
            (CASE low = \h0 -> "sts"
               [] InRange(low, \h1, \h2) -> "st_z"
               [] InRange(low, \h3, \h8) -> R
               [] InRange(low, \h9, \hA) -> "st_y"
               [] low = \hB -> R
               [] InRange(low, \hC, \hE) -> "st_x"
               [] low = \hF -> "push"
               [] OTHER -> "unreachable")
      [] InRange(w, \h9400, \h94FF) ->
            (CASE low = \h0 -> "com"
               [] low = \h1 -> "neg"
               [] low = \h2 -> "swap"
               [] low = \h3 -> "inc"
               [] low = \h4 -> R
               [] low = \h5 -> "asr"
               [] low = \h6 -> "lsr"
               [] low = \h7 -> "ror"
               [] low = \h8 -> flag_mnemonic(high)
               [] low = \h9 -> (IF high = \h0 THEN "ijmp" ELSE R)
               [] low = \hA -> "dec"
               [] low = \hB -> "des"
               [] InRange(low, \hC, \hD) -> "jmp"
               [] InRange(low, \hE, \hF) -> "call"
               [] OTHER -> "unreachable")
      [] InRange(w, \h9500, \h95FF) ->
            (CASE low = \h0 -> "com"
               [] low = \h1 -> "neg"
               [] low = \h2 -> "swap"
               [] low = \h3 -> "inc"
               [] low = \h4 -> R
               [] low = \h5 -> "asr"
               [] low = \h6 -> "lsr"
               [] low = \h7 -> "ror"
               [] low = \h8 -> control_mnemonic(high)
               [] low = \h9 -> (IF high = \h0 THEN "icall" ELSE R)
               [] low = \hA -> "dec"
               [] low = \hB -> R
               [] InRange(low, \hC, \hD) -> "jmp"
               [] InRange(low, \hE, \hF) -> "call"
               [] OTHER -> "unreachable")
      [] InRange(w, \h9600, \h96FF) -> "adiw"
      [] InRange(w, \h9700, \h97FF) -> "sbiw"
      [] InRange(w, \h9800, \h98FF) -> "cbi"
      [] InRange(w, \h9900, \h99FF) -> "sbic"
      [] InRange(w, \h9A00, \h9AFF) -> "sbi"
      [] InRange(w, \h9B00, \h9BFF) -> "sbis"
      [] InRange(w, \h9C00, \h9FFF) -> "mul"
      [] InRange(w, \hA000, \hA1FF) -> "ldd"
      [] InRange(w, \hA200, \hA3FF) -> "std"
      [] InRange(w, \hA400, \hA5FF) -> "ldd"
      [] InRange(w, \hA600, \hA7FF) -> "std"
      [] InRange(w, \hA800, \hA9FF) -> "ldd"
      [] InRange(w, \hAA00, \hABFF) -> "std"
      [] InRange(w, \hAC00, \hADFF) -> "ldd"
      [] InRange(w, \hAE00, \hAFFF) -> "std"
      [] InRange(w, \hB000, \hB7FF) -> "in_"
      [] InRange(w, \hB800, \hBFFF) -> "out"
      [] InRange(w, \hC000, \hCFFF) -> "rjmp"
      [] InRange(w, \hD000, \hDFFF) -> "rcall"
      [] InRange(w, \hE000, \hEFFF) -> "ldi"
      [] InRange(w, \hF000, \hF3FF) -> branch_set_mnemonic(low)
      [] InRange(w, \hF400, \hF7FF) -> branch_clear_mnemonic(low)
      [] InRange(w, \hF800, \hF9FF) -> "bld"
      [] InRange(w, \hFA00, \hFBFF) -> "bst"
      [] InRange(w, \hFC00, \hFDFF) -> "sbrc"
      [] InRange(w, \hFE00, \hFFFF) -> "sbrs"

\* Disassembler::create_string_with_two_registers for self.opcode = w: the
\* first arm of its match, an identifier pattern, takes every high byte, so
\* destination is raised by 16 and source never is.
create_string_with_two_registers(w, match_start) ==
    LET destination == Shr(BitAnd(w, \hF0), 4) + 16
        source == BitAnd(w, \hF)
    IN  "r" \o ToString(destination) \o ", r" \o ToString(source)

\* The match_start the match of disassemble hands to
\* create_string_with_two_registers for opcode w, -1 where it does not call it
two_registers_match_start(w) ==
    CASE InRange(w, \h0400, \h07FF) -> \h05
      [] InRange(w, \h0800, \h0BFF) -> \h09
      [] InRange(w, \h0C00, \h0FFF) -> \h0D
      [] InRange(w, \h1000, \h13FF) -> \h11
      [] InRange(w, \h1400, \h17FF) -> \h15
      [] InRange(w, \h1800, \h1BFF) -> \h19
      [] InRange(w, \h1C00, \h1FFF) -> \h1D
      [] InRange(w, \h2000, \h23FF) -> \h21
      [] InRange(w, \h2400, \h27FF) -> \h25
      [] InRange(w, \h2800, \h2BFF) -> \h29
      [] InRange(w, \h2C00, \h2FFF) -> \h2D
      [] InRange(w, \h9C00, \h9FFF) -> \h9D
      [] OTHER -> -1

NoAssembly == [is_some |-> FALSE, map |-> EmptyVec]

\* disassemble with the new entries merged into the earlier listing
disassemble_merging(program, start_address, end_address) ==
    LET window == {a \in start_address..(end_address - 1) : TRUE}
        listed == [a \in window |->
                     [address |-> a,
                      opcode |-> VecGet(program, a),
                      instruction |-> Mnemonic(VecGet(program, a))]]
    IN  IF \E a \in window : a >= APP_FLASH_SIZE
        THEN /\ fault' = "index"
             /\ UNCHANGED assembly
        ELSE /\ assembly' = [is_some |-> TRUE,
                             map |-> listed @@ assembly.map]
             /\ UNCHANGED fault

\* Disassembler::disassemble over the application flash program, window
\* [start_address, end_address): the map built, or the index panic of
\* program.read
disassemble(program, start_address, end_address) ==
    LET window == {a \in start_address..(end_address - 1) : TRUE}
    IN  IF \E a \in window : a >= APP_FLASH_SIZE
        THEN /\ fault' = "index"
             /\ UNCHANGED assembly
        ELSE /\ assembly' =
                   [is_some |-> TRUE,
                    map |-> [a \in window |->
                               [address |-> a,
                                opcode |-> VecGet(program, a),
                                instruction |->
                                    Mnemonic(VecGet(program, a))]]]
             /\ UNCHANGED fault

----------------------------------------------------------------------------
(* system.rs: flashing.  A HEX file is [opened, lines]; a line is the       *)
(* sequence of its characters.  Every line is valid text, so the unwrap of  *)
(* reader.lines() succeeds.                                                 *)

\* the configured program-start address: the spec's scenarios flash a
\* program "at address 0" and step it from PC = 0
PROGRAM_START == 0

\* ApplicationFlash::clear: the application flash erased, every word 0
clear == EmptyVec

\* char::to_digit(16): the value of a hex digit, -1 for None
to_digit(c) ==
    LET upper == <<"0", "1", "2", "3", "4", "5", "6", "7", "8", "9",
                   "A", "B", "C", "D", "E", "F">>
        lower == <<"0", "1", "2", "3", "4", "5", "6", "7", "8", "9",
                   "a", "b", "c", "d", "e", "f">>
    IN  IF \E i \in 1..16 : upper[i] = c \/ lower[i] = c
        THEN (CHOOSE i \in 1..16 : upper[i] = c \/ lower[i] = c) - 1
        ELSE -1

\* re.captures(line) for
\*   :([A-z0-9]{2})([A-z0-9]{4})([A-z0-9]{2})([A-z0-9]+)([A-z0-9]{2})$
\* The pattern is not anchored at the start and ":" is outside the class
\* (code points 0x41-0x7A and the digits), so a match starts at a ":"
\* followed by 11 or more class characters up to the line's end; data is
\* what lies between the 8 header characters and the 2 checksum characters.
\* (The backslash and the backquote, also of the class, are in no line of
\* the model.)
captures(line) ==
    LET class ==
            {"0", "1", "2", "3", "4", "5", "6", "7", "8", "9",
             "A", "B", "C", "D", "E", "F", "G", "H", "I", "J", "K", "L",
             "M", "N", "O", "P", "Q", "R", "S", "T", "U", "V", "W", "X",
             "Y", "Z", "[", "]", "^", "_",
             "a", "b", "c", "d", "e", "f", "g", "h", "i", "j", "k", "l",
             "m", "n", "o", "p", "q", "r", "s", "t", "u", "v", "w", "x",
             "y", "z"}
        starts ==
            {i \in 1..Len(line) :
                /\ line[i] = ":"
                /\ Len(line) - i >= 11
                /\ \A j \in (i + 1)..Len(line) : line[j] \in class}
    IN  IF starts = {}
        THEN [matched |-> FALSE, data |-> <<>>]
        ELSE [matched |-> TRUE,
              data |-> SubSeq(line, (CHOOSE i \in starts : TRUE) + 9,
                              Len(line) - 2)]

\* data_words with the four characters of a group taken in file order
RECURSIVE data_words_file_order(_)
data_words_file_order(chars) ==
    IF Len(chars) < 4
    THEN [words |-> <<>>, ok |-> TRUE]
    ELSE LET a == to_digit(chars[1])
             b == to_digit(chars[2])
             c == to_digit(chars[3])
             d == to_digit(chars[4])
         IN  IF a < 0 \/ b < 0 \/ c < 0 \/ d < 0
             THEN [words |-> <<>>, ok |-> FALSE]
             ELSE LET rest == data_words_file_order(
                                  SubSeq(chars, 5, Len(chars)))
                      word == BitOr(BitOr(Shl16(a, 12), Shl16(b, 8)),
                                    BitOr(Shl16(c, 4), d))
                  IN  [words |-> <<word>> \o rest.words, ok |-> rest.ok]

\* the inner loop over one data field: a word for every group of four
\* characters; ok = FALSE when an unwrap of to_digit panics, words then
\* holding the words decoded before it
RECURSIVE data_words(_)
data_words(chars) ==
    IF Len(chars) < 4
    THEN [words |-> <<>>, ok |-> TRUE]
    ELSE LET a == to_digit(chars[3])
             b == to_digit(chars[4])
             c == to_digit(chars[1])
             d == to_digit(chars[2])
         IN  IF a < 0 \/ b < 0 \/ c < 0 \/ d < 0
             THEN [words |-> <<>>, ok |-> FALSE]
             ELSE LET rest == data_words(SubSeq(chars, 5, Len(chars)))
                      word == BitOr(BitOr(Shl16(a, 12), Shl16(b, 8)),
                                    BitOr(Shl16(c, 4), d))
                  IN  [words |-> <<word>> \o rest.words, ok |-> rest.ok]

\* the loop over the lines: a line without a match is skipped
RECURSIVE hex_words(_)
hex_words(lines) ==
    IF lines = <<>>
    THEN [words |-> <<>>, ok |-> TRUE]
    ELSE LET capture == captures(Head(lines))
             first == IF capture.matched THEN data_words(capture.data)
                      ELSE [words |-> <<>>, ok |-> TRUE]
         IN  IF ~first.ok
             THEN first
             ELSE LET rest == hex_words(Tail(lines))
                  IN  [words |-> first.words \o rest.words, ok |-> rest.ok]

\* program_memory.write called for each word in turn, the first at address
\* first; mem is [app, boot, fault] and a panic ends the loop
RECURSIVE write_words(_, _, _)
write_words(mem, first, words) ==
    IF words = <<>> \/ mem.fault # "none"
    THEN mem
    ELSE write_words(
             IF Contains(APP_FLASH_START, APP_FLASH_END, first)
             THEN [mem EXCEPT !.app = VecSet(@, first, Head(words))]
             ELSE IF Contains(BOOT_FLASH_START, BOOT_FLASH_END, first)
             THEN [mem EXCEPT
                      !.boot = VecSet(@, first - \h3800, Head(words))]
             ELSE [mem EXCEPT !.fault = "address"],
             first + 1, Tail(words))

\* System::flash_from_vec
flash_from_vec(program) ==
    \E mem \in {write_words([app |-> app_flash, boot |-> boot_flash,
                             fault |-> "none"], PROGRAM_START, program)} :
        /\ app_flash' = mem.app
        /\ boot_flash' = mem.boot
        /\ IF mem.fault # "none"
           THEN /\ fault' = mem.fault
                /\ UNCHANGED assembly
           ELSE disassemble(mem.app, PROGRAM_START, Len(program))

\* flash_from_hex_file with the application flash cleared before the file
\* is opened
flash_from_hex_file_clear_first(file) ==
    IF ~file.opened
    THEN /\ app_flash' = clear
         /\ UNCHANGED <<boot_flash, assembly, fault>>
    ELSE \E decoded \in {hex_words(file.lines)} :
         \E mem \in {write_words([app |-> clear, boot |-> boot_flash,
                                  fault |-> "none"],
                                 PROGRAM_START + 1, decoded.words)} :
            /\ app_flash' = mem.app
            /\ boot_flash' = mem.boot
            /\ IF mem.fault # "none"
               THEN /\ fault' = mem.fault
                    /\ UNCHANGED assembly
               ELSE IF ~decoded.ok
               THEN /\ fault' = "unwrap"
                    /\ UNCHANGED assembly
               ELSE disassemble(mem.app, PROGRAM_START, Len(decoded.words))

\* System::flash_from_hex_file.  program_length is incremented before each
\* write, so the k-th word decoded (k from 1) goes to PROGRAM_START + k,
\* and it is the end of the disassembly window.
flash_from_hex_file(file) ==
    IF ~file.opened
    THEN UNCHANGED <<app_flash, boot_flash, assembly, fault>>
    ELSE \E decoded \in {hex_words(file.lines)} :
         \E mem \in {write_words([app |-> clear, boot |-> boot_flash,
                                  fault |-> "none"],
                                 PROGRAM_START + 1, decoded.words)} :
            /\ app_flash' = mem.app
            /\ boot_flash' = mem.boot
            /\ IF mem.fault # "none"
               THEN /\ fault' = mem.fault
                    /\ UNCHANGED assembly
               ELSE IF ~decoded.ok
               THEN /\ fault' = "unwrap"
                    /\ UNCHANGED assembly
               ELSE disassemble(mem.app, PROGRAM_START, Len(decoded.words))

----------------------------------------------------------------------------
(* The state after construction: Cpu::init, System::default, Sram::default *)

Init ==
    /\ pc = 0
    /\ sp = 0
    /\ cycles = 0
    /\ opcode = 0
    /\ status = SregDefault
    /\ registers = [n \in 0..31 |-> 0]
    /\ io_registers = EmptyVec
    /\ ext_io_registers = EmptyVec
    /\ internal_data = EmptyVec
    /\ app_flash = EmptyVec
    /\ boot_flash = EmptyVec
    /\ eeprom = EmptyVec
    /\ assembly = NoAssembly
    /\ sreg_byte = 0
    /\ returned = 0
    /\ overflow_checks \in BOOLEAN
    /\ fault = "none"
    /\ op = "init"
    /\ steps = 0

----------------------------------------------------------------------------
(* Spec: a program of up to MaxProgLen words from OpcodePool is written to  *)
(* program memory, then run with step and reset.                            *)

\* nop, reserved, dec r0, inc r0, add r0,r0, sec, mul r0,r0, mov r0,r0
OpcodePool == {\h0000, \h0001, \h940A, \h9403, \h0C00, \h9408, \h9C00, \h2C00}

Write(address, data) ==
    /\ fault = "none"
    /\ steps = 0
    /\ op \in {"init", "write"}
    /\ program_memory_write(address, data)
    /\ op' = "write"
    /\ UNCHANGED <<pc, sp, cycles, opcode, status, registers, sram_vars,
                   eeprom, assembly, sreg_byte, returned, overflow_checks,
                   steps>>

\* one call of step, the bound-th call at most
StepWithin(bound) ==
    /\ fault = "none"
    /\ steps < bound
    /\ step
    /\ op' = "step"
    /\ steps' = steps + 1
    /\ UNCHANGED <<sram_vars, mem_vars, assembly, sreg_byte, returned,
                   overflow_checks>>

Step == StepWithin(MaxSteps)

Reset ==
    /\ fault = "none"
    /\ reset
    /\ op' = "reset"
    /\ UNCHANGED <<sram_vars, mem_vars, assembly, sreg_byte, returned,
                   overflow_checks, steps>>

Next ==
    \/ \E address \in 0..(MaxProgLen - 1), data \in OpcodePool :
          Write(address, data)
    \/ Step
    \/ Reset

Spec == Init /\ [][Next]_vars

----------------------------------------------------------------------------
(* DecodeSpec: every 16-bit word in turn is the program word at address 0   *)
(* of a fresh machine; it is stepped and disassembled.                      *)

DisasmEnd == 1  \* the disassembly window is [0, DisasmEnd)

DecodeInit ==
    \E w \in Word :
        /\ pc = 0
        /\ sp = 0
        /\ cycles = 0
        /\ opcode = 0
        /\ status = SregDefault
        /\ registers = [n \in 0..31 |-> 0]
        /\ io_registers = EmptyVec
        /\ ext_io_registers = EmptyVec
        /\ internal_data = EmptyVec
        /\ app_flash = VecSet(EmptyVec, 0, w)
        /\ boot_flash = EmptyVec
        /\ eeprom = EmptyVec
        /\ assembly = NoAssembly
        /\ sreg_byte = 0
        /\ returned = 0
        /\ overflow_checks \in BOOLEAN
        /\ fault = "none"
        /\ op = "write"
        /\ steps = 0

DecodeStep == StepWithin(MaxDecodeSteps)

Disassemble ==
    /\ fault = "none"
    /\ ~assembly.is_some
    /\ disassemble(app_flash, 0, DisasmEnd)
    /\ op' = "disassemble"
    /\ UNCHANGED <<cpu_vars, sram_vars, mem_vars, sreg_byte, returned,
                   overflow_checks, steps>>

DecodeNext == DecodeStep \/ Disassemble

DecodeSpec == DecodeInit /\ [][DecodeNext]_vars

----------------------------------------------------------------------------
(* PcSpec: a fresh machine (program memory all nop) stepped without bound.  *)

PcStep ==
    /\ fault = "none"
    /\ step
    /\ op' = "step"
    /\ steps' = steps + 1
    /\ UNCHANGED <<sram_vars, mem_vars, assembly, sreg_byte, returned,
                   overflow_checks>>

PcNext == PcStep

PcSpec == Init /\ [][PcNext]_vars

----------------------------------------------------------------------------
(* SregSpec: set_byte and byte called in any order with any byte.           *)

SregSetByte(b) ==
    /\ status' = set_byte(b)
    /\ sreg_byte' = b
    /\ op' = "set_byte"
    /\ UNCHANGED <<pc, sp, cycles, opcode, registers, sram_vars, mem_vars,
                   assembly, returned, overflow_checks, fault, steps>>

SregByte ==
    /\ sreg_byte' = byte(status)
    /\ op' = "byte"
    /\ UNCHANGED <<pc, sp, cycles, opcode, status, registers, sram_vars,
                   mem_vars, assembly, returned, overflow_checks, fault,
                   steps>>

SregNext ==
    \/ \E b \in Byte : SregSetByte(b)
    \/ SregByte

SregSpec == Init /\ [][SregNext]_vars

----------------------------------------------------------------------------
(* AluSpec: a fresh machine is arranged the way the unit tests arrange it   *)
(* (a program word stored in app_flash.data[0], the registers and the       *)
(* carry flag assigned directly) and then stepped.                          *)

MaxAluSteps == 1  \* step() calls explored per arrangement in AluSpec

\* the high bytes of the arithmetic, logic and multiplication classes
AluHighBytes ==
    {\h02, \h03} \cup (\h08..\h0F) \cup (\h18..\h2B)
        \cup {\h40, \h4F, \h51, \h58, \h60, \h6F, \h70, \h7A}
        \cup (\h94..\h97) \cup (\h9C..\h9F)

AluLowBytes == {\h00, \h01, \h03, \h0A, \h10, \h28, \h35, \h7A, \hA3, \hFF}

AluOpcodes == {hb * 256 + lb : hb \in AluHighBytes, lb \in AluLowBytes}

AluValues == {0, 1, 15, 16, 127, 128, 255}

\* the test set-up: word w at address 0, value a in the even registers and
\* b in the odd ones, carry c
Arrange(w, a, b, c) ==
    /\ op = "init"
    /\ app_flash' = VecSet(app_flash, 0, w)
    /\ registers' = [n \in 0..31 |-> IF n % 2 = 0 THEN a ELSE b]
    /\ status' = [status EXCEPT !.C = c]
    /\ op' = "arrange"
    /\ UNCHANGED <<pc, sp, cycles, opcode, sram_vars, boot_flash, eeprom,
                   assembly, sreg_byte, returned, overflow_checks, fault,
                   steps>>

AluStep == StepWithin(MaxAluSteps)

\* any arrangement of a machine not yet arranged
ArrangeAny ==
    /\ op = "init"
    /\ \E w \in AluOpcodes, a \in AluValues, b \in AluValues, c \in BOOLEAN :
          Arrange(w, a, b, c)

AluNext == ArrangeAny \/ AluStep

AluSpec == Init /\ [][AluNext]_vars

----------------------------------------------------------------------------
(* PairSpec: the 16-bit addition add r0, r2; adc r1, r3 at addresses 0 and  *)
(* 1 of a fresh machine, the register pairs r1:r0 and r3:r2 holding any     *)
(* two of the operands below; r5:r4 holds a copy of r1:r0, which the        *)
(* program does not touch.                                                  *)

MaxPairSteps == 2  \* step() calls explored per arrangement in PairSpec

PairValues == {0, 1, 127, 128, 255}

\* the test set-up: the two words, the operands and their copy
ArrangePair ==
    /\ op = "init"
    /\ \E a \in PairValues, b \in PairValues,
          c \in PairValues, d \in PairValues :
          registers' = [n \in 0..31 |->
                          CASE n \in {0, 4} -> a
                            [] n \in {1, 5} -> b
                            [] n = 2 -> c
                            [] n = 3 -> d
                            [] OTHER -> 0]
    /\ app_flash' = VecSet(VecSet(app_flash, 0, \h0C02), 1, \h1C13)
    /\ op' = "arrange"
    /\ UNCHANGED <<pc, sp, cycles, opcode, status, sram_vars, boot_flash,
                   eeprom, assembly, sreg_byte, returned, overflow_checks,
                   fault, steps>>

PairStep == StepWithin(MaxPairSteps)

PairNext == ArrangePair \/ PairStep

PairSpec == Init /\ [][PairNext]_vars

----------------------------------------------------------------------------
(* BitSpec: a fresh machine is arranged the way the unit tests of mod bit   *)
(* arrange it (one flag or MCU-control word stored in app_flash.data[0];    *)
(* every flag and the registers assigned directly) and then stepped.        *)

MaxBitSteps == 1

\* sec .. cli (0x9408 + 0x10 * n), nop, sleep, wdr, break
BitOpcodes ==
    {\h9408 + 16 * n : n \in 0..15} \cup {\h0000, \h9588, \h95A8, \h9598}

BitValues == {0, \hA5}

\* the set-up: word w at address 0, the flags of SREG byte b, value v in
\* every register
ArrangeBit(w, b, v) ==
    /\ app_flash' = VecSet(app_flash, 0, w)
    /\ status' = set_byte(b)
    /\ registers' = [n \in 0..31 |-> v]
    /\ op' = "arrange"
    /\ UNCHANGED <<pc, sp, cycles, opcode, sram_vars, boot_flash, eeprom,
                   assembly, sreg_byte, returned, overflow_checks, fault,
                   steps>>

ArrangeAnyBit ==
    /\ op = "init"
    /\ \E w \in BitOpcodes, b \in Byte, v \in BitValues : ArrangeBit(w, b, v)

BitStep == StepWithin(MaxBitSteps)

BitNext == ArrangeAnyBit \/ BitStep

BitSpec == Init /\ [][BitNext]_vars

----------------------------------------------------------------------------
(* MemSpec: the SRAM vectors are left fresh or assigned directly (they are  *)
(* public, as the tests assign registers); then read and write of the five  *)
(* memory objects are called with addresses at and around the ends of       *)
(* every address range.                                                     *)

MaxMemOps == 2

MemAddresses ==
    {\h0000, \h001F, \h0020, \h005F, \h0060, \h00FF, \h0100, \h03FF,
     \h0400, \h08FF, \h0900, \h37FF, \h3800, \h3FFF, \h4000, \hFFFF}

\* every SRAM region holds a value of its own at its first and last index
ArrangeSram ==
    /\ op = "init"
    /\ registers' = [n \in 0..31 |-> n + 1]
    /\ io_registers' = (0 :> \h41) @@ (63 :> \h42)
    /\ ext_io_registers' = (0 :> \h61) @@ (159 :> \h62)
    /\ internal_data' = (0 :> \h81) @@ (2047 :> \h82)
    /\ op' = "arrange"
    /\ UNCHANGED <<pc, sp, cycles, opcode, status, mem_vars, assembly,
                   sreg_byte, returned, overflow_checks, fault, steps>>

\* object.read(address): the word returned, or the panic
MemRead(object, address) ==
    /\ fault = "none"
    /\ steps < MaxMemOps
    /\ \E r \in {CASE object = "app_flash" -> app_flash_read(address)
                   [] object = "boot_flash" -> boot_flash_read(address)
                   [] object = "program_memory" ->
                          program_memory_read(address)
                   [] object = "eeprom" -> eeprom_read(address)
                   [] object = "sram" -> sram_read(address)} :
          IF r.ok
          THEN /\ returned' = r.val
               /\ UNCHANGED fault
          ELSE /\ fault' = CASE object = "app_flash" -> "index"
                             [] object = "boot_flash" /\ address < \h3800
                                /\ overflow_checks -> "overflow"
                             [] object = "boot_flash" -> "index"
                             [] OTHER -> "address"
               /\ UNCHANGED returned
    /\ op' = "read"
    /\ steps' = steps + 1
    /\ UNCHANGED <<cpu_vars, sram_vars, mem_vars, assembly, sreg_byte,
                   overflow_checks>>

\* object.write(address, data)
MemWrite(object, address, data) ==
    /\ fault = "none"
    /\ steps < MaxMemOps
    /\ CASE object = "app_flash" ->
                app_flash_write(address, data) /\ UNCHANGED eeprom
         [] object = "boot_flash" ->
                boot_flash_write(address, data) /\ UNCHANGED eeprom
         [] object = "program_memory" ->
                program_memory_write(address, data) /\ UNCHANGED eeprom
         [] object = "eeprom" ->
                eeprom_write(address, data)
                /\ UNCHANGED <<app_flash, boot_flash>>
         [] object = "sram" ->
                sram_write(address, data) /\ UNCHANGED mem_vars
    /\ op' = "write"
    /\ steps' = steps + 1
    /\ UNCHANGED <<cpu_vars, sram_vars, assembly, sreg_byte, returned,
                   overflow_checks>>

MemNext ==
    \/ ArrangeSram
    \/ \E object \in DOMAIN address_range, address \in MemAddresses :
          MemRead(object, address)
    \/ \E object \in DOMAIN address_range, address \in MemAddresses :
          MemWrite(object, address, \h12EF)

MemSpec == Init /\ [][MemNext]_vars

----------------------------------------------------------------------------
(* FlashSpec: up to MaxFlashOps calls of flash_from_vec, flash_from_hex_file *)
(* and step on a fresh machine.                                             *)

MaxFlashOps == 3

\* a file that cannot be opened, and files of well-formed and malformed lines
HexFiles ==
    LET
        \* ":0400000008940A945A": sec, dec r0
        two_words == <<":", "0", "4", "0", "0", "0", "0", "0", "0", "0",
            "8", "9", "4", "0", "A", "9", "4", "5", "A">>
        \* ":020000000a9460": dec r0 in lower case
        lower_case == <<":", "0", "2", "0", "0", "0", "0", "0", "0", "0",
            "a", "9", "4", "6", "0">>
        \* ":00000001FF": the end-of-file record
        end_of_file == <<":", "0", "0", "0", "0", "0", "0", "0", "1", "F",
            "F">>
        \* "; x"
        comment == <<";", " ", "x">>
        \* ":02000000-894FF": a character outside [A-z0-9]
        dash == <<":", "0", "2", "0", "0", "0", "0", "0", "0", "-", "8",
            "9", "4", "F", "F">>
        \* ":020000000G94FF": G is in [A-z0-9], not a hex digit
        letter_g == <<":", "0", "2", "0", "0", "0", "0", "0", "0", "0", "G",
            "9", "4", "F", "F">>
    IN  {[opened |-> FALSE, lines |-> <<>>],
         [opened |-> TRUE, lines |-> <<>>],
         [opened |-> TRUE, lines |-> <<two_words>>],
         [opened |-> TRUE, lines |-> <<two_words, end_of_file>>],
         [opened |-> TRUE,
          lines |-> <<comment, lower_case, dash, two_words>>],
         [opened |-> TRUE, lines |-> <<dash>>],
         [opened |-> TRUE, lines |-> <<lower_case, letter_g, two_words>>]}

\* sec; reserved, sec; dec r0, nop, inc r0; jmp 0x0001
FlashPrograms ==
    {<<>>, <<\h9408>>, <<\h0001, \h9408>>, <<\h940A, \h0000, \h9403>>,
     <<\h940C, \h0001>>}

FlashFromVec(program) ==
    /\ fault = "none"
    /\ steps < MaxFlashOps
    /\ flash_from_vec(program)
    /\ op' = "flash_vec"
    /\ steps' = steps + 1
    /\ UNCHANGED <<cpu_vars, sram_vars, eeprom, sreg_byte, returned,
                   overflow_checks>>

FlashFromHexFile(file) ==
    /\ fault = "none"
    /\ steps < MaxFlashOps
    /\ flash_from_hex_file(file)
    /\ op' = "flash_hex"
    /\ steps' = steps + 1
    /\ UNCHANGED <<cpu_vars, sram_vars, eeprom, sreg_byte, returned,
                   overflow_checks>>

FlashNext ==
    \/ \E program \in FlashPrograms : FlashFromVec(program)
    \/ \E file \in HexFiles : FlashFromHexFile(file)
    \/ StepWithin(MaxFlashOps)

FlashSpec == Init /\ [][FlashNext]_vars

----------------------------------------------------------------------------
(* Properties *)

\* the word step is about to fetch selects handler h
Dispatches(h) ==
    /\ fault = "none"
    /\ program_memory_read(pc).ok
    /\ Handler(program_memory_read(pc).val) = h

\* bit k of byte b
BitOf(b, k) == (b \div Pow2(k)) % 2

\* C1: SREG serialization is a bijection with fixed bit positions:
\* set_byte(b) followed by byte() returns b, for every byte b; what byte()
\* returns, given back to set_byte, restores every flag; and byte() places
\* C, Z, N, V, S, H, T, I at bits 0, 1, 2, 3, 4, 5, 6, 7.
C1_SregBijection ==
    [][ /\ (op = "set_byte" /\ op' = "byte") => sreg_byte' = sreg_byte
        /\ op' = "byte" =>
              /\ set_byte(sreg_byte') = status
              /\ BitOf(sreg_byte', 0) = B2N(status.C)
              /\ BitOf(sreg_byte', 1) = B2N(status.Z)
              /\ BitOf(sreg_byte', 2) = B2N(status.N)
              /\ BitOf(sreg_byte', 3) = B2N(status.V)
              /\ BitOf(sreg_byte', 4) = B2N(status.S)
              /\ BitOf(sreg_byte', 5) = B2N(status.H)
              /\ BitOf(sreg_byte', 6) = B2N(status.T)
              /\ BitOf(sreg_byte', 7) = B2N(status.I) ]_vars

\* byte() has returned 0xA5 for the flags C, N, H, I
C1_Witness ==
    /\ op = "byte"
    /\ sreg_byte = \hA5
    /\ status = [C |-> TRUE, Z |-> FALSE, N |-> TRUE, V |-> FALSE,
                 S |-> FALSE, H |-> TRUE, T |-> FALSE, I |-> TRUE]

\* C2: in every state reached from Cpu::init by step and reset calls,
\* sram.read(n) returns registers[n] for every n in 0..31.
C2_RegistersAreSram ==
    \A n \in 0..31 : sram_read(n).ok /\ sram_read(n).val = registers[n]

\* a step has left 0xFF in r0, and SRAM address 0 reads 0xFF
C2_Witness ==
    /\ steps > 0
    /\ registers[0] = 255
    /\ sram_read(0).val = 255

\* C3: reset sets PC, SP and cycles to 0 and leaves program memory, the
\* register file, the rest of SRAM and EEPROM as they were.
C3_ResetFrame ==
    [][ op' = "reset" =>
            /\ pc' = 0
            /\ sp' = 0
            /\ cycles' = 0
            /\ UNCHANGED <<app_flash, boot_flash, eeprom, registers,
                           io_registers, ext_io_registers, internal_data>> ]_vars

\* reset was called after two steps of a written program that changed r0
C3_Witness ==
    /\ op = "reset"
    /\ steps >= 2
    /\ registers[0] # 0
    /\ app_flash # EmptyVec
    /\ pc = 0 /\ sp = 0 /\ cycles = 0

\* C4: every 16-bit word is dispatched to one handler named by the decode
\* tree, the one its value selects, and none reaches an unreachable!() arm.
C4_DecodeTotal ==
    steps >= 1 =>
        /\ Handler(opcode) \in HandlerNames
        /\ fault # "unreachable"
        /\ steps = 1 => opcode = VecGet(app_flash, 0)

\* 0x94F8, the last arm of the innermost match, was stepped as cli
C4_Witness ==
    /\ op = "step"
    /\ opcode = \h94F8
    /\ Handler(opcode) = "cli"
    /\ fault = "none"
    /\ pc = 1

\* C5: a step of a reserved encoding advances PC by 1 and cycles by 1,
\* does not abort, and changes no register, SREG flag, SP, SRAM byte or
\* program-memory word.
C5_ReservedStep ==
    [][ (Dispatches("reserved") /\ op' = "step") =>
            /\ fault' = "none"
            /\ pc' = pc + 1
            /\ cycles' = cycles + 1
            /\ UNCHANGED <<registers, status, sp, io_registers,
                           ext_io_registers, internal_data, app_flash,
                           boot_flash>> ]_vars

\* the reserved word 0x95B8 was stepped
C5_Witness ==
    /\ op = "step"
    /\ opcode = \h95B8
    /\ Handler(opcode) = "reserved"
    /\ pc = 1
    /\ cycles = 1

\* C6: step dispatches a word to the reserved handler exactly when the
\* disassembler emits [R] for it.
C6_ReservedAgree ==
    (assembly.is_some /\ steps = 1) =>
        /\ assembly.map[0].opcode = opcode
        /\ (Handler(opcode) = "reserved"
               <=> assembly.map[0].instruction = R)

\* 0x9203 was stepped as reserved and disassembled as [R]
C6_Witness ==
    /\ assembly.is_some
    /\ steps = 1
    /\ opcode = \h9203
    /\ Handler(opcode) = "reserved"
    /\ assembly.map[0].instruction = R

\* the handlers of the instructions that are one word long and are not a
\* branch, jump, call, return or skip
OneWordHandlers ==
    {"add", "adc", "adiw", "sub", "subi", "sbc", "sbci", "sbiw", "and",
     "andi", "or", "ori", "eor", "com", "neg", "inc", "dec", "des",
     "mul", "muls", "mulsu", "fmul", "fmuls", "fmulsu", "cp", "cpc",
     "cpi", "sbi", "cbi", "lsr", "ror", "asr", "swap", "bst", "bld",
     "mov", "movw", "ldi", "in_", "out", "nop", "sleep", "wdr",
     "break_", "sec", "clc", "sen", "cln", "sez", "clz", "sei", "cli",
     "ses", "cls", "sev", "clv", "set", "clt", "seh", "clh"}

\* C7: one step of an instruction that is neither a branch, jump, call,
\* return or skip nor two words long leaves pc = pc_before + 1.
C7_PcAdvancesByOne ==
    [][ (\E h \in OneWordHandlers : Dispatches(h)) /\ op' = "step"
        /\ fault' = "none"
            => pc' = pc + 1 ]_vars

\* the cycle counts the instruction set documents, by handler
OneCycleHandlers ==
    {"add", "adc", "sub", "subi", "sbc", "sbci", "and", "andi", "or",
     "ori", "eor", "com", "neg", "inc", "dec", "nop", "sleep", "wdr",
     "break_", "reserved", "sec", "clc", "sen", "cln", "sez", "clz",
     "sei", "cli", "ses", "cls", "sev", "clv", "set", "clt", "seh",
     "clh"}
TwoCycleHandlers == {"adiw", "sbiw", "mul", "muls", "mulsu"}
ThreeCycleHandlers == {"jmp", "rcall"}
FourCycleHandlers == {"call", "ret", "reti"}
BranchHandlers ==
    {"breq", "brne", "brcs", "brcc", "brmi", "brpl", "brge", "brlt",
     "brhs", "brhc", "brts", "brtc", "brvs", "brvc", "brie", "brid"}

\* C8: one step adds to cycles the documented count of the instruction it
\* executes: 1 for the one-cycle instructions and reserved encodings, 2
\* for adiw, sbiw and the multiplications, 3 for jmp and rcall, 4 for
\* call, ret and reti, 2 or 1 for a branch.
C8_DocumentedCycles ==
    [][ (op' = "step" /\ fault = "none" /\ fault' = "none") =>
            /\ (\E h \in OneCycleHandlers : Dispatches(h))
                   => cycles' = cycles + 1
            /\ (\E h \in TwoCycleHandlers : Dispatches(h))
                   => cycles' = cycles + 2
            /\ (\E h \in ThreeCycleHandlers : Dispatches(h))
                   => cycles' = cycles + 3
            /\ (\E h \in FourCycleHandlers : Dispatches(h))
                   => cycles' = cycles + 4
            /\ (\E h \in BranchHandlers : Dispatches(h))
                   => cycles' \in {cycles + 1, cycles + 2} ]_vars

\* C9: in every state reached by steps, pc is a program-memory address
\* (0 <= pc < 0x4000) and the next fetch does not fault.
C9_PcInProgramMemory ==
    /\ Contains(PROGRAM_FLASH_START, PROGRAM_FLASH_END, pc)
    /\ fault # "address"

\* C10: no step aborts on arithmetic overflow or underflow; inc and add
\* store the sum modulo 256 and dec the difference modulo 256.
C10_WrappingArithmetic ==
    [][ op' = "step" =>
            /\ fault' # "overflow"
            /\ Dispatches("inc")
                   => registers'[single_rd] = (registers[single_rd] + 1) % 256
            /\ Dispatches("dec")
                   => registers'[single_rd]
                          = (registers[single_rd] + 255) % 256
            /\ Dispatches("add")
                   => registers'[two_registers(12).rd]
                          = (registers[two_registers(12).rd]
                             + registers[two_registers(12).rr]) % 256 ]_vars

\* the word the next step fetches
NextWord == program_memory_read(pc).val

\* the n bits of word w from bit lo upwards
Field(w, lo, n) == (w \div Pow2(lo)) % Pow2(n)

\* d and r of a two-register opcode, d and K of an immediate opcode
RegD(w) == Field(w, 4, 4) + 16 * Field(w, 8, 1)
RegR(w) == Field(w, 0, 4) + 16 * Field(w, 9, 1)
ImmD(w) == Field(w, 4, 4) + 16
ImmK(w) == 16 * Field(w, 8, 4) + Field(w, 0, 4)

\* the value the instruction set defines for R[d] after handler h runs on
\* word w, from the registers and carry before the step
DefinedResult(h, w) ==
    LET rd == registers[RegD(w)]
        rr == registers[RegR(w)]
        id == registers[ImmD(w)]
        k == ImmK(w)
        c == B2N(status.C)
    IN  CASE h = "add" -> rd + rr
          [] h = "adc" -> rd + rr + c
          [] h = "sub" -> rd - rr
          [] h = "sbc" -> rd - rr - c
          [] h = "and" -> BitAnd(rd, rr)
          [] h = "eor" -> BitXor(rd, rr)
          [] h = "or" -> BitOr(rd, rr)
          [] h = "subi" -> id - k
          [] h = "sbci" -> id - k - c
          [] h = "andi" -> BitAnd(id, k)
          [] h = "ori" -> BitOr(id, k)

TwoRegisterHandlers == {"add", "adc", "sub", "sbc", "and", "eor", "or"}
ImmediateHandlers == {"subi", "sbci", "andi", "ori"}

\* C11: one step of a two-register or immediate arithmetic / logic opcode
\* stores in R[d] the sum, difference or bitwise result of the operands
\* (and carry) read before the step, whenever that value is in 0..255;
\* d and r are bits 7..4 + 16 * bit 8 and bits 3..0 + 16 * bit 9, or
\* d is bits 7..4 + 16 and K is bits 11..8 and 3..0.
C11_AluResult ==
    [][ op' = "step" =>
          \A h \in TwoRegisterHandlers \cup ImmediateHandlers :
            (Dispatches(h) /\ DefinedResult(h, NextWord) \in 0..255) =>
                /\ fault' = "none"
                /\ registers'[IF h \in ImmediateHandlers
                              THEN ImmD(NextWord) ELSE RegD(NextWord)]
                       = DefinedResult(h, NextWord) ]_vars

\* the second word of the test of add ran: R23 = 15 + 1 from R23 and R10
C11_Witness ==
    /\ op = "step"
    /\ opcode = \h0D7A
    /\ fault = "none"
    /\ registers[23] = 16
    /\ registers[10] = 1
    /\ registers[21] = 15

\* bit i of byte v is set
BitSet(v, i) == Field(v, i, 1) = 1

\* C12: after ADD, with Rd and Rr the operand values before the step and
\* R the result byte: H = Rd3 Rr3 + Rr3 ~R3 + ~R3 Rd3, V = Rd7 Rr7 ~R7 +
\* ~Rd7 ~Rr7 R7, N = R7, S = N xor V, Z = (R = 0), C = Rd7 Rr7 + Rr7 ~R7
\* + ~R7 Rd7.
C12_AddFlags ==
    [][ (op' = "step" /\ Dispatches("add") /\ fault' = "none") =>
          LET Rd == registers[RegD(NextWord)]
              Rr == registers[RegR(NextWord)]
              Res == registers'[RegD(NextWord)]
              carry(i) == \/ BitSet(Rd, i) /\ BitSet(Rr, i)
                          \/ BitSet(Rr, i) /\ ~BitSet(Res, i)
                          \/ ~BitSet(Res, i) /\ BitSet(Rd, i)
              v == \/ BitSet(Rd, 7) /\ BitSet(Rr, 7) /\ ~BitSet(Res, 7)
                   \/ ~BitSet(Rd, 7) /\ ~BitSet(Rr, 7) /\ BitSet(Res, 7)
          IN  /\ status'.H = carry(3)
              /\ status'.V = v
              /\ status'.N = BitSet(Res, 7)
              /\ status'.S = (BitSet(Res, 7) # v)
              /\ status'.Z = (Res = 0)
              /\ status'.C = carry(7) ]_vars

LogicHandlers == {"and", "andi", "or", "ori", "eor"}

\* C13: after AND, ANDI, OR, ORI or EOR with result byte R: V = 0, N is
\* bit 7 of R, S = N xor V, Z = (R = 0), and C and H keep their values.
C13_LogicFlags ==
    [][ (op' = "step" /\ fault' = "none"
         /\ \E h \in LogicHandlers : Dispatches(h)) =>
          LET Res == registers'[IF Dispatches("andi") \/ Dispatches("ori")
                                THEN ImmD(NextWord) ELSE RegD(NextWord)]
          IN  /\ status'.V = FALSE
              /\ status'.N = BitSet(Res, 7)
              /\ status'.S = BitSet(Res, 7)
              /\ status'.Z = (Res = 0)
              /\ status'.C = status.C
              /\ status'.H = status.H ]_vars

\* d of a single-register opcode: bits 7..4, plus 16 under high byte 0x95
SingleD(w) == Field(w, 4, 4) + (IF Field(w, 8, 8) = \h95 THEN 16 ELSE 0)

\* C14: for every value of Rd, COM stores 0xFF - Rd in R[d], sets C and
\* clears V; d is bits 7..4, plus 16 when the high byte is 0x95.
C14_Com ==
    [][ (op' = "step" /\ Dispatches("com")) =>
          /\ fault' = "none"
          /\ registers'[SingleD(NextWord)]
                 = 255 - registers[SingleD(NextWord)]
          /\ status'.C
          /\ ~status'.V ]_vars

\* com r17 ran on R17 = 0x7F
C14_Witness ==
    /\ op = "step"
    /\ opcode = \h9510
    /\ registers[17] = 128
    /\ registers[19] = 127
    /\ status.C
    /\ ~status.V

\* C15: for every value of Rd, NEG stores R = (0 - Rd) mod 256 in R[d],
\* sets V exactly when R = 0x80 and clears C exactly when R = 0.
C15_Neg ==
    [][ (op' = "step" /\ Dispatches("neg") /\ fault' = "none") =>
          LET Res == registers'[SingleD(NextWord)]
          IN  /\ Res = (256 - registers[SingleD(NextWord)]) % 256
              /\ status'.V = (Res = \h80)
              /\ status'.C = (Res # 0) ]_vars

\* C16: after INC, V is set exactly when the result is 0x80; after DEC,
\* exactly when it is 0x7F; neither changes C.
C16_IncDecFlags ==
    [][ (op' = "step" /\ fault' = "none") =>
          /\ Dispatches("inc") =>
                /\ status'.V = (registers'[SingleD(NextWord)] = \h80)
                /\ status'.C = status.C
          /\ Dispatches("dec") =>
                /\ status'.V = (registers'[SingleD(NextWord)] = \h7F)
                /\ status'.C = status.C ]_vars

\* C17: for all values of Rd and Rr, MUL stores the unsigned product
\* Rd * Rr with its low byte in R0 and its high byte in R1; d and r are
\* bits 7..4 + 16 * bit 8 and bits 3..0 + 16 * bit 9.
C17_Mul ==
    [][ (op' = "step" /\ Dispatches("mul")) =>
          LET product == registers[RegD(NextWord)] * registers[RegR(NextWord)]
          IN  /\ fault' = "none"
              /\ registers'[0] = product % 256
              /\ registers'[1] = product \div 256 ]_vars

\* mul r0, r0 ran on R0 = 255: R1:R0 = 0xFE01
C17_Witness ==
    /\ op = "step"
    /\ opcode = \h9C00
    /\ registers[0] = \h01
    /\ registers[1] = \hFE
    /\ registers[2] = 255

\* C18: after MUL, MULS or MULSU, C is bit 15 of the product written to
\* R1:R0 and Z is set exactly when that product is 0.
C18_MulFlags ==
    [][ (op' = "step" /\ fault' = "none"
         /\ \E h \in {"mul", "muls", "mulsu"} : Dispatches(h)) =>
          LET product == 256 * registers'[1] + registers'[0]
          IN  /\ status'.C = BitSet(product, 15)
              /\ status'.Z = (product = 0) ]_vars

\* byte v read as a two's-complement number
Signed(v) == IF v >= 128 THEN v - 256 ELSE v

\* C19: MULS stores in R1:R0 the 16-bit two's-complement product of Rd and
\* Rr read as signed bytes (d = 16 + bits 7..4, r = 16 + bits 3..0); MULSU
\* that of Rd read as signed and Rr as unsigned (d = 16 + bits 6..4,
\* r = 16 + bits 2..0).
C19_SignedMul ==
    [][ (op' = "step" /\ fault' = "none") =>
          LET stored == 256 * registers'[1] + registers'[0]
              w == NextWord
          IN  /\ Dispatches("muls") =>
                    stored = (Signed(registers[16 + Field(w, 4, 4)])
                              * Signed(registers[16 + Field(w, 0, 4)]))
                             % 65536
              /\ Dispatches("mulsu") =>
                    stored = (Signed(registers[16 + Field(w, 4, 3)])
                              * registers[16 + Field(w, 0, 3)])
                             % 65536 ]_vars

\* K and d of an adiw / sbiw opcode
WordK(w) == Field(w, 0, 4) + 16 * Field(w, 6, 2)
WordD(w) == 24 + 2 * Field(w, 4, 2)

\* C20: one step of ADIW / SBIW replaces the pair R[d+1]:R[d] by pair + K /
\* pair - K whenever that is in 0..65535, changes no other register,
\* advances PC by 1 and adds 2 cycles; K is bits 7..6 and 3..0, d is
\* 24 + 2 * bits 5..4.
C20_WordArithmetic ==
    [][ op' = "step" =>
          \A h \in {"adiw", "sbiw"} :
            LET d == WordD(NextWord)
                pair == 256 * registers[d + 1] + registers[d]
                result == IF h = "adiw" THEN pair + WordK(NextWord)
                          ELSE pair - WordK(NextWord)
            IN  (Dispatches(h) /\ result \in 0..65535) =>
                    /\ fault' = "none"
                    /\ registers' = [registers EXCEPT
                                         ![d] = result % 256,
                                         ![d + 1] = result \div 256]
                    /\ pc' = pc + 1
                    /\ cycles' = cycles + 2 ]_vars

\* adiw r28, 8 ran on R29:R28 = 0x00FF
C20_Witness ==
    /\ op = "step"
    /\ opcode = \h9628
    /\ registers[28] = 7
    /\ registers[29] = 1
    /\ registers[26] = 255
    /\ registers[27] = 0
    /\ pc = 1
    /\ cycles = 2

\* what a step leaves alone when it touches neither registers nor memory
StepKeepsData ==
    /\ registers' = registers
    /\ sp' = sp
    /\ UNCHANGED <<sram_vars, mem_vars>>

\* C21: for every s in 0..7, stepping 0x9408 + 0x10*s leaves SREG byte =
\* before OR 2^s and stepping 0x9488 + 0x10*s leaves SREG byte = before AND
\* NOT 2^s; registers, SP and memory are unchanged, PC and cycles each grow
\* by 1.
C21_FlagSetClear ==
    [][ \A s \in 0..7 :
          /\ (op' = "step" /\ fault = "none" /\ NextWord = \h9408 + 16 * s)
                => /\ fault' = "none"
                   /\ byte(status') = BitOr(byte(status), Pow2(s))
                   /\ StepKeepsData
                   /\ pc' = pc + 1
                   /\ cycles' = cycles + 1
          /\ (op' = "step" /\ fault = "none" /\ NextWord = \h9488 + 16 * s)
                => /\ fault' = "none"
                   /\ byte(status') = BitAnd(byte(status), 255 - Pow2(s))
                   /\ StepKeepsData
                   /\ pc' = pc + 1
                   /\ cycles' = cycles + 1 ]_vars

\* cln (0x94A8) ran on SREG = 0xFF and left 0xFB
C21_Witness ==
    /\ op = "step"
    /\ opcode = \h94A8
    /\ byte(status) = \hFB
    /\ registers[5] = \hA5
    /\ pc = 1
    /\ cycles = 1

\* C22: stepping NOP (0x0000), SLEEP (0x9588), WDR (0x95A8) or BREAK
\* (0x9598) advances PC by 1, adds 1 cycle and changes no register, flag,
\* SP or memory cell.
C22_NoStateChange ==
    [][ (op' = "step" /\ fault = "none"
         /\ NextWord \in {\h0000, \h9588, \h95A8, \h9598})
            => /\ fault' = "none"
               /\ pc' = pc + 1
               /\ cycles' = cycles + 1
               /\ status' = status
               /\ StepKeepsData ]_vars

\* C23: program memory is one word-addressed store over [0x0000, 0x4000):
\* after write(a, w), read(a) returns w and read(b) is unchanged for every
\* b # a; 0x0000-0x37FF is served by the application flash and
\* 0x3800-0x3FFF by the boot flash; a read or write at an address >= 0x4000
\* fails.
C23_ProgramMemoryStore ==
    [][ /\ op' = "write" =>
            \A a \in MemAddresses :
               MemWrite("program_memory", a, \h12EF) =>
                  IF a < \h4000
                  THEN /\ fault' = "none"
                       /\ program_memory_read(a)' = Fetched(\h12EF)
                       /\ \A b \in MemAddresses \ {a} :
                             program_memory_read(b)' = program_memory_read(b)
                       /\ IF a < \h3800
                          THEN /\ VecGet(app_flash', a) = \h12EF
                               /\ boot_flash' = boot_flash
                          ELSE /\ VecGet(boot_flash', a - \h3800) = \h12EF
                               /\ app_flash' = app_flash
                  ELSE /\ fault' = "address"
                       /\ UNCHANGED mem_vars
        /\ op' = "read" =>
            \A a \in MemAddresses :
               MemRead("program_memory", a) =>
                  IF a < \h4000
                  THEN /\ fault' = "none"
                       /\ returned' = IF a < \h3800
                                      THEN VecGet(app_flash, a)
                                      ELSE VecGet(boot_flash, a - \h3800)
                  ELSE /\ fault' = "address"
                       /\ returned' = returned ]_vars

\* a word written to the first boot-flash address has been read back, the
\* application flash still empty
C23_Witness ==
    /\ op = "read"
    /\ steps = 2
    /\ fault = "none"
    /\ returned = \h12EF
    /\ VecGet(boot_flash, 0) = \h12EF
    /\ app_flash = EmptyVec
    /\ eeprom = EmptyVec

\* C24: every memory object rejects an access outside its address_range():
\* the read or write fails instead of returning or storing data.
C24_OutOfRangeRejected ==
    [][ \A object \in DOMAIN address_range, a \in MemAddresses :
          ~Contains(address_range[object].start, address_range[object].end,
                    a)
            => /\ MemRead(object, a) => fault' # "none"
               /\ MemWrite(object, a, \h12EF) =>
                     fault' # "none" /\ UNCHANGED mem_vars ]_vars

\* C25: sram.read(a) returns registers[a] for a in 0x0000-0x001F,
\* io_registers[a - 0x20] for 0x0020-0x005F, ext_io_registers[a - 0x60] for
\* 0x0060-0x00FF and internal_data[a - 0x100] for 0x0100-0x08FF; it returns
\* 0 for every such address on a freshly created CPU; it raises the address
\* fault for every a >= 0x0900.
C25_SramRead ==
    [][ \A a \in MemAddresses :
          (op' = "read" /\ MemRead("sram", a)) =>
             IF a < \h0900
             THEN /\ fault' = "none"
                  /\ returned' =
                        CASE a <= \h1F -> registers[a]
                          [] a <= \h5F -> VecGet(io_registers, a - \h20)
                          [] a <= \hFF -> VecGet(ext_io_registers, a - \h60)
                          [] OTHER -> VecGet(internal_data, a - \h100)
                  /\ op = "init" => returned' = 0
             ELSE fault' = "address" /\ returned' = returned ]_vars

\* the last extended I/O byte (address 0xFF) of an assigned SRAM was read
C25_Witness ==
    /\ op = "read"
    /\ fault = "none"
    /\ VecGet(ext_io_registers, 159) = \h62
    /\ returned = \h62
    /\ steps = 1

\* C26: sram.write(a, v) with a in [0x0000, 0x0900) stores the low byte of
\* v so that a following sram.read(a) returns it; for a = n < 32 the value
\* is in registers[n] afterwards.
C26_SramWrite ==
    [][ \A a \in MemAddresses :
          (MemWrite("sram", a, \h12EF) /\ a < \h0900) =>
             /\ fault' = "none"
             /\ sram_read(a)' = Fetched(\hEF)
             /\ a < 32 => registers'[a] = \hEF ]_vars

\* C27: flashing writes the program consecutively from the program-start
\* address: flash_from_hex_file stores the i-th word decoded from the file
\* (i from 0) at PROGRAM_START + i, as flash_from_vec stores the i-th list
\* element.
C27_FlashConsecutive ==
    [][ /\ \A program \in FlashPrograms :
             (op' = "flash_vec" /\ FlashFromVec(program) /\ fault' = "none")
                => \A i \in 0..(Len(program) - 1) :
                      VecGet(app_flash', PROGRAM_START + i) = program[i + 1]
        /\ \A file \in HexFiles :
             (op' = "flash_hex" /\ file.opened /\ FlashFromHexFile(file)
              /\ fault' = "none")
                => \A i \in 0..(Len(hex_words(file.lines).words) - 1) :
                      VecGet(app_flash', PROGRAM_START + i)
                         = hex_words(file.lines).words[i + 1] ]_vars

\* the number of words the flash operation taken has written
FlashedWords ==
    IF op' = "flash_vec"
    THEN {Len(program) : program \in {p \in FlashPrograms : FlashFromVec(p)}}
    ELSE {Len(hex_words(file.lines).words) :
             file \in {f \in HexFiles : f.opened /\ FlashFromHexFile(f)}}

\* C28: after flashing n words with either flash operation the disassembly
\* map holds an entry for each address that was written, its keys are the
\* addresses of [PROGRAM_START, PROGRAM_START + n) and no other, and each
\* entry's opcode is the word now stored at its address.
C28_ListingCoversFlashed ==
    [][ (op' \in {"flash_vec", "flash_hex"} /\ fault' = "none")
          => \A n \in FlashedWords :
                /\ assembly'.is_some
                /\ DOMAIN assembly'.map
                      = PROGRAM_START..(PROGRAM_START + n - 1)
                /\ \A a \in DOMAIN assembly'.map :
                      assembly'.map[a].opcode = VecGet(app_flash', a)
                /\ \A a \in DOMAIN app_flash' :
                      VecGet(app_flash', a) # VecGet(app_flash, a)
                         => a \in DOMAIN assembly'.map ]_vars

\* a line as the spec accepts it: it matches the record pattern and every
\* character of its data field is a hexadecimal digit
WellFormed(line) ==
    /\ captures(line).matched
    /\ \A i \in 1..Len(captures(line).data) :
          to_digit(captures(line).data[i]) >= 0

\* the number of words the well-formed lines carry
RECURSIVE WellFormedWords(_)
WellFormedWords(lines) ==
    IF lines = <<>> THEN 0
    ELSE (IF WellFormed(Head(lines))
          THEN Len(captures(Head(lines)).data) \div 4 ELSE 0)
         + WellFormedWords(Tail(lines))

\* C29: HEX loading never aborts on a malformed line: a line that does not
\* match the record pattern, or whose data field holds a character that is
\* not a hexadecimal digit, is skipped and contributes no word, and loading
\* continues with the next line.
C29_MalformedLineSkipped ==
    [][ \A file \in HexFiles :
          (op' = "flash_hex" /\ file.opened /\ FlashFromHexFile(file))
             => /\ fault' = "none"
                /\ assembly'.is_some
                /\ Cardinality(DOMAIN assembly'.map)
                      = WellFormedWords(file.lines) ]_vars

\* C30: if the HEX file cannot be opened, flash_from_hex_file returns with
\* program memory, the disassembly map and all CPU state (PC, SP, SREG,
\* registers, cycles) unchanged.
C30_OpenFailure ==
    [][ \A file \in HexFiles :
          (op' = "flash_hex" /\ ~file.opened /\ FlashFromHexFile(file))
             => /\ fault' = "none"
                /\ UNCHANGED <<mem_vars, assembly, cpu_vars, sram_vars>>
      ]_vars

\* flash_from_hex_file was called after flash_from_vec([0x0001, 0x9408]) and
\* a step, and the program and its listing are still there: address 0 is
\* never written from a file that opens
C30_Witness ==
    /\ op = "flash_hex"
    /\ steps = 3
    /\ fault = "none"
    /\ pc = 1
    /\ cycles = 1
    /\ VecGet(app_flash, 0) = \h0001
    /\ VecGet(app_flash, 1) = \h9408
    /\ assembly.is_some
    /\ DOMAIN assembly.map = {0, 1}

\* the four-character groups of the data fields of the lines that match,
\* in file order
RECURSIVE Groups(_)
Groups(lines) ==
    IF lines = <<>> THEN <<>>
    ELSE LET data == captures(Head(lines)).data
         IN  [x \in 1..(Len(data) \div 4) |-> SubSeq(data, 4 * x - 3, 4 * x)]
             \o Groups(Tail(lines))

\* C31: for every four-hex-digit group C D A B of a HEX data field (low
\* byte CD, then high byte AB) the word stored is (A<<12)|(B<<8)|(C<<4)|D,
\* and the groups are stored at consecutive word addresses in file order.
C31_HexWord ==
    [][ \A file \in HexFiles :
          (op' = "flash_hex" /\ file.opened /\ FlashFromHexFile(file)
           /\ fault' = "none")
             => \E first \in 0..1 :
                   \A i \in 1..Len(Groups(file.lines)) :
                      LET g == Groups(file.lines)[i]
                      IN  VecGet(app_flash', first + i - 1)
                             = 4096 * to_digit(g[3]) + 256 * to_digit(g[4])
                               + 16 * to_digit(g[1]) + to_digit(g[2]) ]_vars

\* the groups 0a94, 0894, 0A94 of two records were flashed
C31_Witness ==
    /\ op = "flash_hex"
    /\ fault = "none"
    /\ VecGet(app_flash, 1) = \h940A
    /\ VecGet(app_flash, 2) = \h9408
    /\ VecGet(app_flash, 3) = \h940A

\* C32: disassemble(flash, start, end) is total over its window: afterwards
\* the map has exactly the keys a with start <= a < end (none when
\* start >= end), the entry at key a has address a and the flash word at a
\* as opcode, every entry has a non-empty mnemonic, as every 16-bit word
\* has, and an earlier listing is replaced, not merged.
C32_DisassembleWindow ==
    [][ (op' \in {"flash_vec", "flash_hex"} /\ fault' = "none")
          => \A end \in FlashedWords :
                /\ assembly'.is_some
                /\ DOMAIN assembly'.map
                      = {a \in 0..(PROGRAM_FLASH_END - 1) :
                            PROGRAM_START <= a /\ a < end}
                /\ \A a \in DOMAIN assembly'.map :
                      /\ assembly'.map[a].address = a
                      /\ assembly'.map[a].opcode = VecGet(app_flash', a)
                      /\ assembly'.map[a].instruction # ""
                /\ steps = 0 => \A w \in Word : Mnemonic(w) # "" ]_vars

\* a listing of three entries was replaced by the listing of a one-word
\* program
C32_Witness ==
    /\ op = "flash_vec"
    /\ steps = 2
    /\ fault = "none"
    /\ VecGet(app_flash, 0) = \h9408
    /\ VecGet(app_flash, 2) = \h9403
    /\ DOMAIN assembly.map = {0}
    /\ assembly.map[0].instruction = "sec"

\* C33: for every conditional-branch opcode (0xF000-0xF7FF), k the
\* sign-extended displacement of bits 9..3: when the flag selected by bits
\* 2..0 is set (0xF000-0xF3FF) or clear (0xF400-0xF7FF) the step leaves
\* PC = PC + 1 + k and adds 2 cycles, otherwise PC = PC + 1 and 1 cycle; no
\* register or flag changes.
C33_Branch ==
    [][ (op' = "step" /\ fault = "none"
         /\ InRange(NextWord, \hF000, \hF7FF))
          => LET k7 == Field(NextWord, 3, 7)
                 k == IF k7 >= 64 THEN k7 - 128 ELSE k7
                 taken == BitOf(byte(status), Field(NextWord, 0, 3))
                             = (IF NextWord < \hF400 THEN 1 ELSE 0)
             IN  /\ fault' = "none"
                 /\ pc' = (IF taken THEN pc + 1 + k ELSE pc + 1) % 65536
                 /\ cycles' = cycles + (IF taken THEN 2 ELSE 1)
                 /\ registers' = registers
                 /\ status' = status ]_vars

\* C34: PUSH Rr writes Rr to SRAM[SP] and then decrements SP by 1; POP Rd
\* increments SP by 1 and then loads Rd from SRAM[SP].
C34_PushPop ==
    [][ /\ (op' = "step" /\ Dispatches("push"))
            => /\ fault' = "none"
               /\ sram_read(sp)' = Fetched(registers[Field(NextWord, 4, 5)])
               /\ sp' = (sp - 1) % 65536
        /\ (op' = "step" /\ Dispatches("pop"))
            => /\ fault' = "none"
               /\ sp' = (sp + 1) % 65536
               /\ Fetched(registers'[Field(NextWord, 4, 5)]) = sram_read(sp')
      ]_vars

\* the mnemonic of the instruction handler h executes: the handler's name,
\* without the underscore that keeps in_ and break_ from being keywords
HandlerMnemonic(h) ==
    CASE h = "in_" -> "in"
      [] h = "break_" -> "break"
      [] OTHER -> h

\* C35: for every non-reserved opcode the disassembler emits exactly one
\* mnemonic, that of the instruction whose handler step dispatches the
\* opcode to (every opcode in 0x8000-0x81FF is listed as ldd, 0xB000-0xB7FF
\* as in).
C35_MnemonicMatchesHandler ==
    [][ (op' = "disassemble" /\ fault' = "none"
         /\ Handler(VecGet(app_flash, 0)) # "reserved")
          => assembly'.map[0].instruction
                = HandlerMnemonic(Handler(VecGet(app_flash, 0))) ]_vars

\* the operand string rD, rR of the two-register encoding dddd: d rrrr: r
TwoRegisterString(w) ==
    "r" \o ToString(Field(w, 4, 4) + 16 * Field(w, 8, 1))
        \o ", r" \o ToString(Field(w, 0, 4) + 16 * Field(w, 9, 1))

\* C36: for the two-register classes (cpc, sbc, add, cpse, cp, sub, adc, and,
\* eor, or, mov, mul) the operand string of a listed opcode is rD, rR with
\* D = bits 7..4 + 16 * bit 8 and R = bits 3..0 + 16 * bit 9.
C36_TwoRegisterOperands ==
    [][ (op' = "disassemble" /\ fault' = "none"
         /\ two_registers_match_start(assembly'.map[0].opcode) # -1)
          => create_string_with_two_registers(
                 assembly'.map[0].opcode,
                 two_registers_match_start(assembly'.map[0].opcode))
               = TwoRegisterString(assembly'.map[0].opcode) ]_vars

\* the 16-bit value of the register pair hi:lo
PairValue(hi, lo) == registers[hi] * 256 + registers[lo]

\* C37: an ADD of the low bytes followed by an ADC of the high bytes of two
\* register pairs leaves the destination pair equal to the 16-bit sum of the
\* two pairs modulo 65536.
C37_AddAdcPair ==
    (steps = 2 /\ op = "step" /\ fault = "none") =>
        PairValue(1, 0) = (PairValue(5, 4) + PairValue(3, 2)) % 65536

\* C38: after INC or DEC the Z flag is set exactly when the result byte is
\* 0x00.
C38_IncDecZero ==
    [][ (op' = "step" /\ fault' = "none"
         /\ (Dispatches("inc") \/ Dispatches("dec")))
          => status'.Z = (registers'[SingleD(NextWord)] = \h00) ]_vars

SingleHandlers == {"com", "neg", "inc", "dec"}
WordHandlers == {"adiw", "sbiw"}
MulHandlers == {"mul", "muls", "mulsu"}

\* the registers the instruction set makes the destination of handler h on
\* word w
Destination(h, w) ==
    CASE h \in TwoRegisterHandlers -> {RegD(w)}
      [] h \in ImmediateHandlers -> {ImmD(w)}
      [] h \in SingleHandlers -> {SingleD(w)}
      [] h \in WordHandlers -> {WordD(w), WordD(w) + 1}
      [] h \in MulHandlers -> {0, 1}

\* C39: a step of an implemented arithmetic / logic instruction changes,
\* apart from SREG, PC, cycles and the latched opcode, only its destination
\* (R[d]; R[d+1]:R[d] for ADIW / SBIW; R1:R0 for MUL / MULS / MULSU): every
\* other register, all of SRAM, SP, program memory and EEPROM are unchanged.
C39_AluFrame ==
    [][ (op' = "step"
         /\ \E h \in {Handler(NextWord)} :
               /\ Dispatches(h)
               /\ h \in TwoRegisterHandlers \cup ImmediateHandlers
                        \cup SingleHandlers \cup WordHandlers
                        \cup MulHandlers)
          => /\ \A n \in 0..31
                     \ Destination(Handler(NextWord), NextWord) :
                    registers'[n] = registers[n]
             /\ sp' = sp
             /\ UNCHANGED <<sram_vars, mem_vars>> ]_vars

\* mul r3, r5 ran with 15 in the odd registers and 1 in the even ones: the
\* product 225 is in R1:R0 and R2, R3 are as arranged
C39_Witness ==
    /\ op = "step"
    /\ fault = "none"
    /\ opcode = \h9C35
    /\ registers[0] = 225
    /\ registers[1] = 0
    /\ registers[2] = 1
    /\ registers[3] = 15

\* the mnemonics of the instructions of two words
TwoWordMnemonics == {"jmp", "call", "lds", "sts"}

\* C40: the disassembler treats a two-word instruction (jmp, call, lds, sts)
\* as occupying two addresses: the address after its first word has no
\* entry of its own in the listing.
C40_TwoWordInstruction ==
    assembly.is_some =>
        \A a \in DOMAIN assembly.map :
            assembly.map[a].instruction \in TwoWordMnemonics
                => (a + 1) \notin DOMAIN assembly.map

====
